---- MODULE Spec2Model ----
(***************************************************************************)
(* State-machine model of the ChatAion / Virtual Human backends.           *)
(*                                                                         *)
(* The repository is a set of independent services; each one is modelled   *)
(* as its own part of the state with its own specification:                *)
(*   SpecAnim    src/backend AnimationService.process_facial_animation     *)
(*   SpecUnity   src/backend AnimationService.send_animation_data          *)
(*   SpecVH      src/VirtualHuman LLMService.generate_response             *)
(*   SpecRoutes  the HTTP route handlers of the three backends             *)
(*   SpecInterp  src/pybackend PythonInterpreter / ConstitutionAgent       *)
(*   SpecMcp     src/pybackend stdio MCP servers                           *)
(*   SpecLangflow   src/pybackend DirectLangflowClient / LangflowAgent     *)
(*   SpecAvatar     src/VirtualHuman avatar routes                         *)
(*   SpecHistory    the conversation history of both LLMService classes    *)
(*   SpecChat       src/backend chat route, concurrent requests            *)
(*   SpecSessions   src/VirtualHuman chat routes and their sessions        *)
(*   SpecRegistry   src/pybackend LangflowFlowRegistry                     *)
(*   SpecMcps       src/pybackend/main.py /api/mcps endpoints              *)
(*                                                                         *)
(* Real-valued blendshape weights and landmark coordinates are fixed-point *)
(* integers in units of 1/Scale.                                           *)
(***************************************************************************)
EXTENDS Integers, Naturals, Sequences, FiniteSets, TLC

VARIABLES
    initialized,          \* AnimationService._initialized
    mediapipe_face_mesh,  \* AnimationService._mediapipe_face_mesh is not None
    frame,                \* the image handed to process_facial_animation, as MediaPipe sees it
    animResult,           \* the dict returned by process_facial_animation, or NoResult
    animPath              \* which return statement produced animResult

animVars == <<initialized, mediapipe_face_mesh, frame, animResult, animPath>>

VARIABLES
    unity_websocket,      \* AnimationService._unity_websocket: 0 is None, else a connection id
    connsOpened,          \* number of connections websockets.connect has returned so far
    failedConns,          \* connections on which a send has raised
    upc,                  \* position of each send_animation_data call
    ucall                 \* what each send_animation_data call has done so far

unityVars == <<unity_websocket, connsOpened, failedConns, upc, ucall>>

VARIABLES
    api_key,              \* settings.openai.api_key of the VirtualHuman backend
    vh_client,            \* VirtualHuman LLMService._client is not None
    vh_is_healthy,        \* VirtualHuman LLMService._is_healthy
    vh_demo_mode,         \* VirtualHuman LLMService._demo_mode
    vh_history,           \* VirtualHuman LLMService._conversation_history
    vh_demo_init,         \* initialize has run while the key was absent or the placeholder
    openai_calls,         \* number of calls made to _client.chat.completions.create
    vh_started,           \* number of generate_response calls started
    vh_pc,                \* position of each generate_response call
    vh_call               \* input and result of each generate_response call

vhVars == <<api_key, vh_client, vh_is_healthy, vh_demo_mode, vh_history, vh_demo_init,
            openai_calls, vh_started, vh_pc, vh_call>>

VARIABLES
    rt_pc,                \* "idle", "received" or "responded"
    rt_req,               \* the request being handled and what its service calls do
    rt_resp               \* the response the client gets

routeVars == <<rt_pc, rt_req, rt_resp>>

VARIABLES
    ip_pc,                \* "idle", "exec" (inside exec(code)), "returned" or "raised"
    ip_call,              \* the running call: entry point, program and timeout argument
    ip_elapsed,           \* seconds spent inside exec(code) so far
    ip_stdout,            \* what sys.stdout is bound to: "real" or the "StringIO" of a call
    ip_result             \* the dict returned, or the exception that left the call

interpVars == <<ip_pc, ip_call, ip_elapsed, ip_stdout, ip_result>>

VARIABLES
    mcp_server,           \* which server process runs
    mcp_pc,               \* "reading", "handling", "stopped" (end of input), "exited", "hung"
    mcp_line,             \* the line being handled
    mcp_in,               \* what was read from stdin: per line its class and request id
    mcp_out               \* the responses printed to stdout, in order

mcpVars == <<mcp_server, mcp_pc, mcp_line, mcp_in, mcp_out>>

VARIABLES
    lf_pc,                \* "idle", "awaiting" (request sent), "returned" or "raised"
    lf_session,           \* self.session is not None
    lf_call,              \* the running call: client class and method
    lf_result             \* the dict returned, or the exception that left the call

lfVars == <<lf_pc, lf_session, lf_call, lf_result>>

VARIABLES
    default_avatars,      \* the module-level dict DEFAULT_AVATARS
    custom_avatars,       \* the module-level dict custom_avatars
    av_resp               \* the last request and its answer, with custom_avatars as it was before

avVars == <<default_avatars, custom_avatars, av_resp>>

VARIABLES
    bk_history,           \* src/backend LLMService._conversation_history: session id -> messages
    vhh_history,          \* VirtualHuman LLMService._conversation_history: one list
    hs_demo_mode,         \* VirtualHuman LLMService._demo_mode
    hs_log,               \* per history, every message appended to it since it was last cleared
    hs_calls,             \* the number of generate_response calls made so far
    hs_built              \* the last message list built for an LLM call, and from what

histVars == <<bk_history, vhh_history, hs_demo_mode, hs_log, hs_calls, hs_built>>

VARIABLES
    ch_client,            \* src/backend LLMService._client is not None
    ch_audio,             \* src/backend AudioService._initialized
    ch_history,           \* src/backend LLMService._conversation_history of the running app
    ch_started,           \* number of /api/chat/send requests received so far
    ch_pc,                \* per request slot: "idle", "llm", "unity", "tts" or "done"
    ch_req                \* per request slot: the request and its answer

chatVars == <<ch_client, ch_audio, ch_history, ch_started, ch_pc, ch_req>>

VARIABLES
    vs_demo_mode,         \* VirtualHuman LLMService._demo_mode
    vs_llm_history,       \* VirtualHuman LLMService._conversation_history
    conversation_history, \* the dict conversation_history of the VirtualHuman chat routes
    vs_calls,             \* number of /send requests handled so far
    vs_built              \* the last message list given to the LLM, and for which request

sessVars == <<vs_demo_mode, vs_llm_history, conversation_history, vs_calls, vs_built>>

VARIABLES
    flows,                \* LangflowFlowRegistry.flows: flow key -> flow
    registry_file,        \* the "flows" object last written to the registry file
    rg_ops,               \* number of registry operations made so far
    rg_result             \* the last operation, its result, and the registry as it was before

regVars == <<flows, registry_file, rg_ops, rg_result>>

VARIABLES
    mcps_json,   \* the file MCP_FILE ("mcps.json")
    ms_pc,       \* where each threadpool worker is in its handler
    ms_req,      \* the request each worker is serving
    ms_mcps,     \* the local list mcps of each worker's handler
    ms_status,   \* the status of the last response sent
    ms_log,      \* the requests received so far, in order of arrival
    ms_acked,    \* ids whose add was answered 200 and no delete has written since
    ms_get       \* the last answer of GET /api/mcps, with ms_acked as it was then

mcpsVars == <<mcps_json, ms_pc, ms_req, ms_mcps, ms_status, ms_log, ms_acked, ms_get>>

vars == <<animVars, unityVars, vhVars, routeVars, interpVars, mcpVars, lfVars, avVars, histVars, chatVars, sessVars, regVars, mcpsVars>>

otherThanAnim == <<unityVars, vhVars, routeVars, interpVars, mcpVars, lfVars, avVars, histVars, chatVars, sessVars, regVars, mcpsVars>>

otherThanUnity == <<animVars, vhVars, routeVars, interpVars, mcpVars, lfVars, avVars, histVars, chatVars, sessVars, regVars, mcpsVars>>

otherThanVH == <<animVars, unityVars, routeVars, interpVars, mcpVars, lfVars, avVars, histVars, chatVars, sessVars, regVars, mcpsVars>>

otherThanRoute == <<animVars, unityVars, vhVars, interpVars, mcpVars, lfVars, avVars, histVars, chatVars, sessVars, regVars, mcpsVars>>

otherThanInterp == <<animVars, unityVars, vhVars, routeVars, mcpVars, lfVars, avVars, histVars, chatVars, sessVars, regVars, mcpsVars>>

otherThanMcp == <<animVars, unityVars, vhVars, routeVars, interpVars, lfVars, avVars, histVars, chatVars, sessVars, regVars, mcpsVars>>

otherThanLf == <<animVars, unityVars, vhVars, routeVars, interpVars, mcpVars, avVars, histVars, chatVars, sessVars, regVars, mcpsVars>>

otherThanAv == <<animVars, unityVars, vhVars, routeVars, interpVars, mcpVars, lfVars, histVars, chatVars, sessVars, regVars, mcpsVars>>

otherThanHist == <<animVars, unityVars, vhVars, routeVars, interpVars, mcpVars, lfVars, avVars, chatVars, sessVars, regVars, mcpsVars>>

otherThanChat == <<animVars, unityVars, vhVars, routeVars, interpVars, mcpVars, lfVars, avVars, histVars, sessVars, regVars, mcpsVars>>

otherThanSess == <<animVars, unityVars, vhVars, routeVars, interpVars, mcpVars, lfVars, avVars, histVars, chatVars, regVars, mcpsVars>>

otherThanReg == <<animVars, unityVars, vhVars, routeVars, interpVars, mcpVars, lfVars, avVars, histVars, chatVars, sessVars, mcpsVars>>

otherThanMcps == <<animVars, unityVars, vhVars, routeVars, interpVars, mcpVars, lfVars, avVars, histVars, chatVars, sessVars, regVars>>

(***************************************************************************)
(* Generic helpers                                                         *)
(***************************************************************************)
Range(s) == {s[i] : i \in DOMAIN s}

Max2(a, b) == IF a >= b THEN a ELSE b

Min2(a, b) == IF a <= b THEN a ELSE b

SetMax(S) == CHOOSE m \in S : \A x \in S : x <= m

SetMin(S) == CHOOSE m \in S : \A x \in S : m <= x

\* floor of the square root of a natural number
ISqrt(n) == CHOOSE r \in 0..n : r * r <= n /\ (r + 1) * (r + 1) > n

NoResult == [none |-> TRUE]

(***************************************************************************)
(* Bounds of the model                                                     *)
(***************************************************************************)
\* fixed-point unit: a weight w is stored as w * Scale
Scale == 10 * 100

\* landmark coordinates are multiples of CoordStep/Scale, from -1 to CoordMax steps
CoordStep == 80

CoordMax == 4

Coords == {CoordStep * i : i \in -1..CoordMax}

(***************************************************************************)
(* src/backend/core/animation_service.py                                   *)
(***************************************************************************)
ARKIT_BLENDSHAPES == <<
    "browDown_L", "browDown_R", "browInnerUp", "browOuterUp_L", "browOuterUp_R",
    "cheekPuff", "cheekSquint_L", "cheekSquint_R", "eyeBlink_L", "eyeBlink_R",
    "eyeLookDown_L", "eyeLookDown_R", "eyeLookIn_L", "eyeLookIn_R", "eyeLookOut_L",
    "eyeLookOut_R", "eyeLookUp_L", "eyeLookUp_R", "eyeSquint_L", "eyeSquint_R",
    "eyeWide_L", "eyeWide_R", "jawForward", "jawLeft", "jawOpen", "jawRight",
    "mouthClose", "mouthDimple_L", "mouthDimple_R", "mouthFrown_L", "mouthFrown_R",
    "mouthFunnel", "mouthLeft", "mouthLowerDown_L", "mouthLowerDown_R", "mouthPress_L",
    "mouthPress_R", "mouthPucker", "mouthRight", "mouthRollLower", "mouthRollUpper",
    "mouthShrugLower", "mouthShrugUpper", "mouthSmile_L", "mouthSmile_R", "mouthStretch_L",
    "mouthStretch_R", "mouthUpperUp_L", "mouthUpperUp_R", "noseSneer_L", "noseSneer_R",
    "tongueOut", "tongueUp", "tongueDown", "tongueLeft", "tongueRight" >>

\* settings.blendshape_count
blendshape_count == 52

\* the emotion strings a caller passes; "bored" stands for any string without a table entry
Emotions == {"neutral", "happy", "sad", "excited", "angry", "bored"}

left_eye_indices == <<33, 7, 163, 144, 145, 153, 154, 155, 133, 173, 157, 158, 159, 160, 161, 246>>

right_eye_indices == <<362, 382, 381, 380, 374, 373, 390, 249, 263, 466, 388, 387, 386, 385, 384, 398>>

mouth_indices == <<13, 14, 15, 16, 17, 18, 19, 20, 21, 22, 23, 24, 25, 26, 27, 28, 29, 30, 31, 32>>

left_corner == 61

right_corner == 291

\* Landmark sets: lm.n points; the points at the probe indices carry the
\* coordinates of lm.probes, every other point is the origin.
ProbeIndices == {159, 386, 17, 61}

LandmarkCounts == {0, 33, 292, 468, 478}

Point(lm, i) == IF i \in ProbeIndices THEN lm.probes[i] ELSE <<0, 0, 0>>

LandmarkSets ==
    { [n |-> c, probes |-> (159 :> <<0, y1, 0>>) @@ (386 :> <<0, y2, 0>>) @@
                           (17 :> <<0, y3, 0>>) @@ (61 :> <<x4, 0, 0>>)] :
        c \in LandmarkCounts, y1 \in Coords, y2 \in Coords, y3 \in Coords,
        x4 \in Coords }

\* the landmark set of a frame in which no face was found (never read)
NoLandmarks == [n |-> 0, probes |-> (159 :> <<0, 0, 0>>) @@ (386 :> <<0, 0, 0>>) @@
                                    (17 :> <<0, 0, 0>>) @@ (61 :> <<0, 0, 0>>)]

\* np.max(points[idx][:, 1]) - np.min(points[idx][:, 1])
HeightOver(lm, idx) ==
    LET ys == {Point(lm, idx[k])[2] : k \in DOMAIN idx}
    IN  SetMax(ys) - SetMin(ys)

_calculate_eye_height(lm, eye) ==
    LET eye_indices == IF eye = "left" THEN left_eye_indices ELSE right_eye_indices
    IN  IF lm.n > SetMax(Range(eye_indices))
        THEN HeightOver(lm, eye_indices)
        ELSE Scale \div 10

_calculate_mouth_height(lm) ==
    IF lm.n > SetMax(Range(mouth_indices))
    THEN HeightOver(lm, mouth_indices)
    ELSE 0

_calculate_smile_intensity(lm) ==
    IF lm.n > Max2(left_corner, right_corner)
    THEN LET p == Point(lm, left_corner)
             q == Point(lm, right_corner)
             d2 == (p[1] - q[1]) * (p[1] - q[1]) + (p[2] - q[2]) * (p[2] - q[2])
                   + (p[3] - q[3]) * (p[3] - q[3])
             distance == ISqrt(d2)
         IN  Min2(Scale, (distance * Scale) \div ((3 * Scale) \div 10))
    ELSE 0

\* 1 - eye_height / 0.1 without the clamp at 0
EyeBlinkUnclamped(eye_height) == Scale - 10 * eye_height

\* max(0, 1 - eye_height / 0.1)
EyeBlink(eye_height) == Max2(0, Scale - 10 * eye_height)

\* min(1, mouth_height / 0.15)
JawOpen(mouth_height) == Min2(Scale, (mouth_height * Scale) \div ((15 * Scale) \div 100))

_calculate_blendshapes_from_landmarks(lm) ==
    LET smile == _calculate_smile_intensity(lm)
        computed == ("eyeBlink_L" :> EyeBlink(_calculate_eye_height(lm, "left"))) @@
                    ("eyeBlink_R" :> EyeBlink(_calculate_eye_height(lm, "right"))) @@
                    ("jawOpen" :> JawOpen(_calculate_mouth_height(lm))) @@
                    ("mouthSmile_L" :> smile) @@
                    ("mouthSmile_R" :> smile)
    IN  [b \in (DOMAIN computed) \cup Range(ARKIT_BLENDSHAPES) |->
            IF b \in DOMAIN computed THEN computed[b] ELSE 0]
\* the emotion_modifiers table of _apply_emotion_overlay, weights times Scale
emotion_modifiers ==
    ("happy" :> (("mouthSmile_L" :> 800) @@ ("mouthSmile_R" :> 800) @@
                 ("cheekSquint_L" :> 600) @@ ("cheekSquint_R" :> 600) @@
                 ("eyeWide_L" :> 300) @@ ("eyeWide_R" :> 300))) @@
    ("sad" :> (("mouthFrown_L" :> 700) @@ ("mouthFrown_R" :> 700) @@
               ("browDown_L" :> 600) @@ ("browDown_R" :> 600) @@
               ("eyeSquint_L" :> 400) @@ ("eyeSquint_R" :> 400))) @@
    ("excited" :> (("mouthSmile_L" :> 900) @@ ("mouthSmile_R" :> 900) @@
                   ("eyeWide_L" :> 800) @@ ("eyeWide_R" :> 800) @@
                   ("browInnerUp" :> 700) @@ ("jawOpen" :> 300))) @@
    ("angry" :> (("browDown_L" :> 800) @@ ("browDown_R" :> 800) @@
                 ("mouthFrown_L" :> 600) @@ ("mouthFrown_R" :> 600) @@
                 ("eyeSquint_L" :> 700) @@ ("eyeSquint_R" :> 700)))

_apply_emotion_overlay(blendshapes, emotion) ==
    IF emotion \in DOMAIN emotion_modifiers
    THEN [b \in DOMAIN blendshapes |->
            IF b \in DOMAIN emotion_modifiers[emotion]
            THEN Max2(blendshapes[b], emotion_modifiers[emotion][b])
            ELSE blendshapes[b]]
    ELSE blendshapes

_get_default_blendshapes(emotion) ==
    LET zero == [b \in Range(ARKIT_BLENDSHAPES) |-> 0]
    IN  CASE emotion = "happy" ->
                [zero EXCEPT !["mouthSmile_L"] = 500, !["mouthSmile_R"] = 500]
          [] emotion = "sad" ->
                [zero EXCEPT !["mouthFrown_L"] = 500, !["mouthFrown_R"] = 500]
          [] emotion = "excited" ->
                [zero EXCEPT !["eyeWide_L"] = 300, !["eyeWide_R"] = 300]
          [] OTHER -> zero

\* What MediaPipe and OpenCV do with the image of one call:
\*   "raise"   cv2.cvtColor or FaceMesh.process raises
\*   "noface"  results.multi_face_landmarks is empty
\*   "face"    results.multi_face_landmarks[0] is frame.landmarks
Detections == {"raise", "noface", "face"}

Frames ==
    [detect : {"face"}, landmarks : LandmarkSets, emotion : Emotions] \cup
    [detect : {"raise", "noface"}, landmarks : {NoLandmarks}, emotion : Emotions]

\* AnimationService.initialize; settings.mediapipe_face_mesh is True.  A
\* MediaPipe constructor may raise: FaceMesh (nothing assigned yet) or Hands
\* (the face mesh is already assigned), and _initialized stays False.
AnimInitialize ==
    /\ animPath = "none"
    /\ \E outcome \in {"ok", "face_mesh_raises", "hands_raises"} :
          /\ mediapipe_face_mesh' = (outcome # "face_mesh_raises" \/ mediapipe_face_mesh)
          /\ initialized' = (outcome = "ok" \/ initialized)
    /\ UNCHANGED <<frame, animResult, animPath>>
    /\ UNCHANGED otherThanAnim

\* AnimationService.cleanup
AnimCleanup ==
    /\ animPath = "none"
    /\ initialized \/ mediapipe_face_mesh
    /\ mediapipe_face_mesh' = FALSE
    /\ initialized' = FALSE
    /\ UNCHANGED <<frame, animResult, animPath>>
    /\ UNCHANGED otherThanAnim

\* AnimationService.process_facial_animation(image, emotion)
process_facial_animation ==
    /\ animPath = "none"
    /\ IF ~initialized \/ ~mediapipe_face_mesh
       THEN /\ animResult' = _get_default_blendshapes(frame.emotion)
            /\ animPath' = "default_uninitialized"
       ELSE CASE frame.detect = "raise" ->
                    /\ animResult' = _get_default_blendshapes(frame.emotion)
                    /\ animPath' = "default_exception"
              [] frame.detect = "noface" ->
                    /\ animResult' = _get_default_blendshapes(frame.emotion)
                    /\ animPath' = "default_noface"
              [] OTHER ->
                    /\ animResult' = _apply_emotion_overlay(
                            _calculate_blendshapes_from_landmarks(frame.landmarks),
                            frame.emotion)
                    /\ animPath' = "computed"
    /\ UNCHANGED <<initialized, mediapipe_face_mesh, frame>>
    /\ UNCHANGED otherThanAnim

AnimStart ==
    /\ initialized = FALSE
    /\ mediapipe_face_mesh = FALSE
    /\ frame \in Frames
    /\ animResult = NoResult
    /\ animPath = "none"

AnimIdle ==
    /\ initialized = FALSE
    /\ mediapipe_face_mesh = FALSE
    /\ frame = [detect |-> "noface", landmarks |-> NoLandmarks, emotion |-> "neutral"]
    /\ animResult = NoResult
    /\ animPath = "none"

AnimNext == AnimInitialize \/ AnimCleanup \/ process_facial_animation

(***************************************************************************)
(* src/backend/core/animation_service.py: the Unity WebSocket session.     *)
(* send_animation_data is a coroutine; calls made by concurrent requests   *)
(* interleave at its two awaits (connect and send).                        *)
(***************************************************************************)
\* concurrent callers of send_animation_data
NumCallers == 2

\* websockets.connect succeeds at most MaxConns times in a run
MaxConns == 3

UnityCallers == 1..NumCallers

NoCall == [hadConn |-> FALSE, connect |-> "none", sentOn |-> 0, stale |-> FALSE,
           send |-> "none", ret |-> "none", wsAtReturn |-> 0]

UnityIdle ==
    /\ unity_websocket = 0
    /\ connsOpened = 0
    /\ failedConns = {}
    /\ upc = [c \in UnityCallers |-> "idle"]
    /\ ucall = [c \in UnityCallers |-> NoCall]

\* the value send_animation_data leaves in _unity_websocket when the send raised
WebsocketKeptAfterFailure(ws) == ws

WebsocketAfterFailedSend(ws) == 0

\* The statements from json.dumps to the evaluation of _unity_websocket.send(message),
\* run without suspension on the connection ws that _unity_websocket holds:
\* dumps may raise (the except branch runs, nothing is sent), otherwise the send starts.
BeginSend(c, call, ws) ==
    \E dumps \in {"ok", "raises"} :
        IF dumps = "raises"
        THEN /\ unity_websocket' = WebsocketAfterFailedSend(ws)
             /\ upc' = [upc EXCEPT ![c] = "done"]
             /\ ucall' = [ucall EXCEPT ![c] = [call EXCEPT !.send = "not_started", !.ret = "False",
                              !.wsAtReturn = WebsocketAfterFailedSend(ws)]]
        ELSE /\ unity_websocket' = ws
             /\ upc' = [upc EXCEPT ![c] = "sending"]
             /\ ucall' = [ucall EXCEPT ![c] = [call EXCEPT !.sentOn = ws,
                              !.stale = (ws \in failedConns)]]

\* send_animation_data entered: with a connection it goes straight to the send,
\* without one it awaits connect_to_unity
SendEnter(c) ==
    /\ upc[c] = "idle"
    /\ IF unity_websocket # 0
       THEN BeginSend(c, [NoCall EXCEPT !.hadConn = TRUE], unity_websocket)
       ELSE /\ upc' = [upc EXCEPT ![c] = "connecting"]
            /\ ucall' = [ucall EXCEPT ![c] = NoCall]
            /\ UNCHANGED unity_websocket
    /\ UNCHANGED <<connsOpened, failedConns>>
    /\ UNCHANGED otherThanUnity

\* connect_to_unity returns True: a new connection is stored and the send begins
ConnectOk(c) ==
    /\ upc[c] = "connecting"
    /\ connsOpened < MaxConns
    /\ connsOpened' = connsOpened + 1
    /\ BeginSend(c, [NoCall EXCEPT !.connect = "ok"], connsOpened + 1)
    /\ UNCHANGED failedConns
    /\ UNCHANGED otherThanUnity

\* connect_to_unity returns False: send_animation_data returns False
ConnectFails(c) ==
    /\ upc[c] = "connecting"
    /\ upc' = [upc EXCEPT ![c] = "done"]
    /\ ucall' = [ucall EXCEPT ![c].connect = "failed", ![c].ret = "False",
                              ![c].wsAtReturn = unity_websocket]
    /\ UNCHANGED <<unity_websocket, connsOpened, failedConns>>
    /\ UNCHANGED otherThanUnity

\* the awaited send completes: return True
SendOk(c) ==
    /\ upc[c] = "sending"
    /\ upc' = [upc EXCEPT ![c] = "done"]
    /\ ucall' = [ucall EXCEPT ![c].send = "ok", ![c].ret = "True",
                              ![c].wsAtReturn = unity_websocket]
    /\ UNCHANGED <<unity_websocket, connsOpened, failedConns>>
    /\ UNCHANGED otherThanUnity

\* the awaited send raises: _unity_websocket = None, return False
SendFails(c) ==
    /\ upc[c] = "sending"
    /\ failedConns' = failedConns \cup {ucall[c].sentOn}
    /\ unity_websocket' = WebsocketAfterFailedSend(unity_websocket)
    /\ upc' = [upc EXCEPT ![c] = "done"]
    /\ ucall' = [ucall EXCEPT ![c].send = "failed", ![c].ret = "False",
                              ![c].wsAtReturn = WebsocketAfterFailedSend(unity_websocket)]
    /\ UNCHANGED connsOpened
    /\ UNCHANGED otherThanUnity

\* the caller takes the returned value and may call again
SendReturn(c) ==
    /\ upc[c] = "done"
    /\ upc' = [upc EXCEPT ![c] = "idle"]
    /\ ucall' = [ucall EXCEPT ![c] = NoCall]
    /\ UNCHANGED <<unity_websocket, connsOpened, failedConns>>
    /\ UNCHANGED otherThanUnity

\* AnimationService.cleanup: the connection is closed and forgotten
UnityCleanup ==
    /\ unity_websocket # 0
    /\ unity_websocket' = 0
    /\ UNCHANGED <<connsOpened, failedConns, upc, ucall>>
    /\ UNCHANGED otherThanUnity

UnityNext ==
    \/ UnityCleanup
    \/ \E c \in UnityCallers :
        \/ SendEnter(c)
        \/ ConnectOk(c)
        \/ ConnectFails(c)
        \/ SendOk(c)
        \/ SendFails(c)
        \/ SendReturn(c)

(***************************************************************************)
(* src/VirtualHuman/backend/core/llm_service.py                            *)
(* A text is modelled by the set of keywords it contains.                  *)
(***************************************************************************)
\* concurrent callers of generate_response
NumVHCallers == 2

\* generate_response is called at most MaxVHCalls times in a run
MaxVHCalls == 2

VHCallers == 1..NumVHCallers

\* default of OpenAISettings.api_key
PlaceholderKey == "your_openai_api_key_here"

ApiKeys == {"", PlaceholderKey, "sk-real"}

\* user inputs: the empty string and texts containing some of the keywords
UserInputs == {{}, {"hi", "math"}, {"math"}, {"science"}, {"history", "help"}, {"help"}}

\* texts the OpenAI model may answer with; NoContent is message.content = None
NoContent == "None"

LLMAnswers == {"llm answer", NoContent}

\* the condition of LLMService.initialize that selects demo mode, with the
\* comparison against the placeholder left out
KeyMissingIgnoringPlaceholder(key) == key = ""

\* not settings.openai.api_key or settings.openai.api_key == "your_openai_api_key_here"
KeyMissing(key) == key = "" \/ key = PlaceholderKey

_generate_demo_response(user_input) ==
    CASE "hello" \in user_input \/ "hi" \in user_input -> <<"demo", "hello">>
      [] "math" \in user_input \/ "calculate" \in user_input -> <<"demo", "math">>
      [] "science" \in user_input -> <<"demo", "science">>
      [] "history" \in user_input -> <<"demo", "history">>
      [] "help" \in user_input -> <<"demo", "help">>
      [] OTHER -> <<"demo", "question about", user_input>>

CannedResponses == {_generate_demo_response(u) : u \in UserInputs}

\* _update_conversation_history applied to a history h
VHUpdateHistory(h, user_input, response) ==
    LET appended == h \o << [role |-> "user", content |-> user_input],
                           [role |-> "assistant", content |-> response] >>
    IN  IF Len(appended) > 20
        THEN SubSeq(appended, Len(appended) - 19, Len(appended))
        ELSE appended

NoVHCall == [user_input |-> {}, after_demo_init |-> FALSE, called_client |-> FALSE,
             response |-> "none", mode |-> "none"]

VHIdle ==
    /\ api_key = ""
    /\ vh_client = FALSE
    /\ vh_is_healthy = FALSE
    /\ vh_demo_mode = FALSE
    /\ vh_history = << >>
    /\ vh_demo_init = FALSE
    /\ openai_calls = 0
    /\ vh_started = 0
    /\ vh_pc = [c \in VHCallers |-> "idle"]
    /\ vh_call = [c \in VHCallers |-> NoVHCall]

VHStart ==
    /\ api_key \in ApiKeys
    /\ vh_client = FALSE
    /\ vh_is_healthy = FALSE
    /\ vh_demo_mode = FALSE
    /\ vh_history = << >>
    /\ vh_demo_init = FALSE
    /\ openai_calls = 0
    /\ vh_started = 0
    /\ vh_pc = [c \in VHCallers |-> "idle"]
    /\ vh_call = [c \in VHCallers |-> NoVHCall]

\* LLMService.initialize
VHInitialize ==
    /\ IF KeyMissing(api_key)
       THEN /\ vh_client' = FALSE
            /\ vh_is_healthy' = TRUE
            /\ vh_demo_mode' = TRUE
       ELSE \E ctor \in {"ok", "raises"} :
               IF ctor = "ok"
               THEN /\ vh_client' = TRUE
                    /\ vh_is_healthy' = TRUE
                    /\ vh_demo_mode' = FALSE
               ELSE /\ vh_client' = vh_client
                    /\ vh_is_healthy' = FALSE
                    /\ vh_demo_mode' = TRUE
    /\ vh_demo_init' = (vh_demo_init \/ api_key = "" \/ api_key = PlaceholderKey)
    /\ UNCHANGED <<api_key, vh_history, openai_calls, vh_started, vh_pc, vh_call>>
    /\ UNCHANGED otherThanVH

\* LLMService.cleanup
VHCleanup ==
    /\ vh_client \/ vh_is_healthy
    /\ vh_client' = FALSE
    /\ vh_is_healthy' = FALSE
    /\ UNCHANGED <<api_key, vh_demo_mode, vh_history, vh_demo_init, openai_calls, vh_started,
                   vh_pc, vh_call>>
    /\ UNCHANGED otherThanVH

\* the except branch of generate_response: canned response, mode "fallback"
VHFallback(c, call, h) ==
    LET demo_response == _generate_demo_response(call.user_input)
    IN  /\ vh_history' = VHUpdateHistory(h, call.user_input, demo_response)
        /\ vh_pc' = [vh_pc EXCEPT ![c] = "done"]
        /\ vh_call' = [vh_call EXCEPT ![c] =
                          [call EXCEPT !.response = demo_response, !.mode = "fallback"]]

\* generate_response up to its first suspension: the demo branch and the
\* "client not initialized" error complete at once, otherwise the call awaits OpenAI
VHGenerateEnter(c) ==
    /\ vh_pc[c] = "idle"
    /\ vh_started < MaxVHCalls
    /\ vh_started' = vh_started + 1
    /\ \E user_input \in UserInputs :
          LET call == [NoVHCall EXCEPT !.user_input = user_input,
                                       !.after_demo_init = vh_demo_init]
          IN  IF vh_demo_mode
              THEN LET demo_response == _generate_demo_response(user_input)
                   IN  /\ vh_history' = VHUpdateHistory(vh_history, user_input, demo_response)
                       /\ vh_pc' = [vh_pc EXCEPT ![c] = "done"]
                       /\ vh_call' = [vh_call EXCEPT ![c] =
                                         [call EXCEPT !.response = demo_response, !.mode = "demo"]]
                       /\ UNCHANGED openai_calls
              ELSE IF ~vh_client
                   THEN VHFallback(c, call, vh_history) /\ UNCHANGED openai_calls
                   ELSE /\ openai_calls' = openai_calls + 1
                        /\ vh_pc' = [vh_pc EXCEPT ![c] = "awaiting"]
                        /\ vh_call' = [vh_call EXCEPT ![c] = [call EXCEPT !.called_client = TRUE]]
                        /\ UNCHANGED vh_history
    /\ UNCHANGED <<api_key, vh_client, vh_is_healthy, vh_demo_mode, vh_demo_init>>
    /\ UNCHANGED otherThanVH

\* the OpenAI call returns: the history is updated and the production result
\* returned; a reply without content makes _analyze_response_for_animation
\* raise after the history update, and the except branch runs
VHGenerateComplete(c) ==
    /\ vh_pc[c] = "awaiting"
    /\ \E answer \in LLMAnswers :
          IF answer = NoContent
          THEN VHFallback(c, vh_call[c],
                          VHUpdateHistory(vh_history, vh_call[c].user_input, answer))
          ELSE /\ vh_history' = VHUpdateHistory(vh_history, vh_call[c].user_input, answer)
               /\ vh_pc' = [vh_pc EXCEPT ![c] = "done"]
               /\ vh_call' = [vh_call EXCEPT ![c].response = answer, ![c].mode = "production"]
    /\ UNCHANGED <<api_key, vh_client, vh_is_healthy, vh_demo_mode, vh_demo_init, openai_calls,
                   vh_started>>
    /\ UNCHANGED otherThanVH

\* the OpenAI call raises: the except branch runs
VHGenerateRaises(c) ==
    /\ vh_pc[c] = "awaiting"
    /\ VHFallback(c, vh_call[c], vh_history)
    /\ UNCHANGED <<api_key, vh_client, vh_is_healthy, vh_demo_mode, vh_demo_init, openai_calls,
                   vh_started>>
    /\ UNCHANGED otherThanVH

\* the caller takes the result
VHReturn(c) ==
    /\ vh_pc[c] = "done"
    /\ vh_pc' = [vh_pc EXCEPT ![c] = "idle"]
    /\ vh_call' = [vh_call EXCEPT ![c] = NoVHCall]
    /\ UNCHANGED <<api_key, vh_client, vh_is_healthy, vh_demo_mode, vh_history, vh_demo_init,
                   openai_calls, vh_started>>
    /\ UNCHANGED otherThanVH

VHNext ==
    \/ VHInitialize
    \/ VHCleanup
    \/ \E c \in VHCallers :
        \/ VHGenerateEnter(c)
        \/ VHGenerateComplete(c)
        \/ VHGenerateRaises(c)
        \/ VHReturn(c)

(***************************************************************************)
(* Route handlers: src/backend/api/routes/*.py,                            *)
(* src/VirtualHuman/backend/api/routes/chat.py, src/pybackend/main.py.     *)
(* A handler body either returns or raises; every handler wraps its body   *)
(* in try / except Exception, and FastAPI turns what leaves the handler    *)
(* into the response.                                                      *)
(***************************************************************************)
\* a text; str() of an HTTPException is "<code>: <text>"
Text(t) == [prefix |-> "", code |-> 0, text |-> t]

NoExc == [type |-> "none", status |-> 0, text |-> Text("")]

HTTPException(status_code, detail) ==
    [type |-> "HTTPException", status |-> status_code, text |-> Text(detail)]

RuntimeError(text) == [type |-> "RuntimeError", status |-> 0, text |-> Text(text)]

APIError(text) == [type |-> "APIError", status |-> 0, text |-> Text(text)]

\* str(e)
Str(e) == IF e.type = "HTTPException" THEN [e.text EXCEPT !.code = e.status] ELSE e.text

Return == [kind |-> "return", exc |-> NoExc]

Raise(e) == [kind |-> "raise", exc |-> e]

HttpRoutes == {"chat_send", "chat_sessions", "chat_history", "chat_clear",
               "audio_stt", "audio_tts", "audio_voices", "audio_analyze", "audio_stream",
               "animation_update", "animation_gesture",
               "avatar_preset", "avatar_create", "avatar_update",
               "vh_chat_send", "py_audio_generate"}

WsRoutes == {"chat_ws"}

BackendRoutes == (HttpRoutes \ {"vh_chat_send", "py_audio_generate"}) \cup WsRoutes

\* what the service called first does: "ok" returns a value, "falsy" returns
\* False or None, "swallowed" fails inside and returns an error value,
\* "uninit" raises RuntimeError('... not initialized'), "error" raises the vendor's error
ServiceOutcomes == {"ok", "falsy", "swallowed", "uninit", "error"}

Raising == {"uninit", "error"}

Req(route, arg, svc, use_voice, svc2) ==
    [route |-> route, arg |-> arg, svc |-> svc, use_voice |-> use_voice, svc2 |-> svc2]

NoReq == Req("none", "ok", "ok", FALSE, "ok")

Requests ==
    {Req("chat_send", "ok", s, v, a) :
        s \in {"ok", "uninit", "error"}, v \in BOOLEAN, a \in {"ok", "uninit", "error"}} \cup
    {Req("chat_ws", "ok", s, FALSE, "ok") : s \in {"ok", "uninit", "error"}} \cup
    {Req(r, "ok", "ok", FALSE, "ok") : r \in {"chat_sessions", "chat_history", "chat_clear"}} \cup
    {Req("audio_stt", g, s, FALSE, "ok") : g \in {"ok", "bad"}, s \in {"ok", "uninit", "error"}} \cup
    {Req(r, "ok", s, FALSE, "ok") :
        r \in {"audio_tts", "audio_stream"}, s \in {"ok", "uninit", "error"}} \cup
    {Req("audio_voices", "ok", s, FALSE, "ok") : s \in {"ok", "uninit"}} \cup
    {Req("audio_analyze", g, s, FALSE, "ok") : g \in {"ok", "bad"}, s \in {"ok", "swallowed"}} \cup
    {Req(r, "ok", s, FALSE, "ok") :
        r \in {"animation_update", "animation_gesture"}, s \in {"ok", "falsy"}} \cup
    {Req(r, g, "ok", FALSE, "ok") :
        r \in {"avatar_preset", "avatar_create", "avatar_update"}, g \in {"ok", "bad"}} \cup
    {Req("vh_chat_send", g, "ok", FALSE, "ok") : g \in {"ok", "bad"}} \cup
    {Req("py_audio_generate", g, s, FALSE, "ok") :
        g \in {"ok", "bad", "no_key"}, s \in {"ok", "falsy"}}

\* the exception a service raises into the handler
LLMRaises(svc) ==
    IF svc = "uninit" THEN RuntimeError("LLM service not initialized")
    ELSE APIError("OpenAI request failed")

AudioRaises(svc) ==
    IF svc = "uninit" THEN RuntimeError("Audio service not initialized")
    ELSE APIError("audio vendor request failed")

\* the HTTPException a handler raises on purpose for a rejected argument
ArgRejection(req) ==
    CASE req.route = "avatar_preset" -> HTTPException(404, "Avatar preset not found")
      [] req.route \in {"avatar_create", "avatar_update"} ->
            HTTPException(400, "Name and model path are required")
      [] req.route \in {"audio_stt", "audio_analyze"} ->
            HTTPException(400, "File must be an audio file")
      [] req.route = "vh_chat_send" -> HTTPException(400, "Message is required")
      [] req.route = "py_audio_generate" /\ req.arg = "bad" ->
            HTTPException(400, "Text is required")
      [] req.route = "py_audio_generate" /\ req.arg = "no_key" ->
            HTTPException(400, "OpenAI API key is required")
      [] OTHER -> NoExc

\* the statements inside the try block of the handler of req.route
Body(req) ==
    CASE req.route \in {"chat_send", "chat_ws"} ->
            IF req.svc \in Raising THEN Raise(LLMRaises(req.svc))
            ELSE IF req.use_voice /\ req.svc2 \in Raising THEN Raise(AudioRaises(req.svc2))
            ELSE Return
      [] req.route \in {"chat_sessions", "chat_history", "chat_clear"} -> Return
      [] req.route \in {"audio_stt", "audio_analyze"} ->
            IF req.arg # "ok" THEN Raise(ArgRejection(req))
            ELSE IF req.svc \in Raising THEN Raise(AudioRaises(req.svc))
            ELSE Return
      [] req.route \in {"audio_tts", "audio_stream", "audio_voices"} ->
            IF req.svc \in Raising THEN Raise(AudioRaises(req.svc)) ELSE Return
      [] req.route \in {"animation_update", "animation_gesture"} ->
            IF req.svc = "falsy" THEN Raise(HTTPException(503, "Unity not connected"))
            ELSE Return
      [] req.route \in {"avatar_preset", "avatar_create", "avatar_update", "vh_chat_send"} ->
            IF req.arg # "ok" THEN Raise(ArgRejection(req)) ELSE Return
      [] req.route = "py_audio_generate" ->
            IF req.arg # "ok" THEN Raise(ArgRejection(req))
            ELSE IF req.svc = "falsy" THEN Raise(HTTPException(500, "Failed to generate speech"))
            ELSE Return
      [] OTHER -> Return

\* a handler without its except clause
NoExceptClause(req, outcome) == outcome

\* except Exception as e: raise HTTPException(status_code=500, detail=str(e));
\* HTTPException is a subclass of Exception.  The chat WebSocket handler sends
\* an error message instead and goes on.
ExceptException(req, outcome) ==
    IF outcome.kind = "return" THEN outcome
    ELSE IF req.route \in WsRoutes
         THEN [kind |-> "ws_error", exc |-> outcome.exc]
         ELSE Raise([type |-> "HTTPException", status |-> 500,
                     text |-> [Str(outcome.exc) EXCEPT !.prefix =
                                 IF req.route = "py_audio_generate"
                                 THEN "Speech generation failed: " ELSE ""]])

\* FastAPI: a returned value is a 200 response, an HTTPException a response
\* with its status and detail, any other exception an unhandled 500
Respond(req, outcome) ==
    CASE outcome.kind = "return" ->
            [channel |-> IF req.route \in WsRoutes THEN "ws" ELSE "http",
             kind |-> "success", status |-> 200, detail |-> Text("")]
      [] outcome.kind = "ws_error" ->
            [channel |-> "ws", kind |-> "error", status |-> 0, detail |-> Str(outcome.exc)]
      [] outcome.exc.type = "HTTPException" ->
            [channel |-> "http", kind |-> "error", status |-> outcome.exc.status,
             detail |-> outcome.exc.text]
      [] OTHER ->
            [channel |-> "http", kind |-> "unhandled", status |-> 500,
             detail |-> Text("Internal Server Error")]

NoResp == [channel |-> "none", kind |-> "none", status |-> 0, detail |-> Text("")]

RouteIdle ==
    /\ rt_pc = "idle"
    /\ rt_req = NoReq
    /\ rt_resp = NoResp

\* a request arrives
RouteReceive ==
    /\ rt_pc \in {"idle", "responded"}
    /\ rt_pc' = "received"
    /\ rt_req' \in Requests
    /\ rt_resp' = NoResp
    /\ UNCHANGED otherThanRoute

\* the handler runs and the response is sent
RouteHandle ==
    /\ rt_pc = "received"
    /\ rt_pc' = "responded"
    /\ rt_resp' = Respond(rt_req, ExceptException(rt_req, Body(rt_req)))
    /\ UNCHANGED rt_req
    /\ UNCHANGED otherThanRoute

RouteNext == RouteReceive \/ RouteHandle

(***************************************************************************)
(* src/pybackend/python_interpreter.py                                     *)
(* A code string is modelled by what running it does: the text it prints   *)
(* and how it ends.                                                        *)
(***************************************************************************)
\* longest text a program prints
MaxTextLen == 2

\* largest timeout argument, in seconds; the clock runs to MaxTimeout + 1
MaxTimeout == 2

Chars == {"a", " "}

Texts == UNION {[1..n -> Chars] : n \in 0..MaxTextLen}

\* how exec(code) ends: normally, with an exception of the named class, or never
ExceptionEndings == {"SyntaxError", "NameError", "ImportError", "ZeroDivisionError"}

\* classes derived from BaseException but not from Exception: sys.exit() and Ctrl-C
BaseExceptionEndings == {"SystemExit", "KeyboardInterrupt"}

Endings == {"completes", "loops"} \cup ExceptionEndings \cup BaseExceptionEndings

\* a program that does not compile prints nothing
Programs ==
    {[printed |-> t, ending |-> e] : t \in Texts, e \in Endings \ {"SyntaxError"}} \cup
    {[printed |-> << >>, ending |-> "SyntaxError"]}

RECURSIVE LStrip(_)
LStrip(t) == IF t # << >> /\ Head(t) = " " THEN LStrip(Tail(t)) ELSE t

RECURSIVE RStrip(_)
RStrip(t) == IF t # << >> /\ t[Len(t)] = " " THEN RStrip(SubSeq(t, 1, Len(t) - 1)) ELSE t

\* str.strip()
Strip(t) == RStrip(LStrip(t))

\* the error text of each except clause of execute_code
ErrorText(ending) ==
    CASE ending = "SyntaxError" -> <<"Syntax Error: ", ending>>
      [] ending = "NameError" -> <<"Name Error: ", ending>>
      [] ending = "ImportError" -> <<"Import Error: ", ending>>
      [] OTHER -> <<"Execution Error: ", ending, "Traceback">>

NoError == << >>

\* the except clauses of execute_code: SyntaxError, NameError, ImportError, Exception
Caught(ending) == ending \in ExceptionEndings

NoInterpCall == [via |-> "none", code |-> [printed |-> << >>, ending |-> "completes"],
                 timeout |-> 0]

NoInterpResult == [kind |-> "none", success |-> FALSE, output |-> << >>, error |-> NoError,
                   constitutional_guidance |-> ""]

InterpIdle ==
    /\ ip_pc = "idle"
    /\ ip_call = NoInterpCall
    /\ ip_elapsed = 0
    /\ ip_stdout = "real"
    /\ ip_result = NoInterpResult

\* execute_code(code, timeout) is called directly, or by execute_python(code,
\* context) with the default timeout; the timeout is counted on the model's
\* clock; sys.stdout is redirected and exec(code) begins
InterpCall ==
    /\ ip_pc \in {"idle", "returned", "raised"}
    /\ \E via \in {"execute_code", "execute_python"}, code \in Programs, timeout \in 1..MaxTimeout :
          ip_call' = [via |-> via, code |-> code, timeout |-> timeout]
    /\ ip_pc' = "exec"
    /\ ip_elapsed' = 0
    /\ ip_stdout' = "StringIO"
    /\ ip_result' = NoInterpResult
    /\ UNCHANGED otherThanInterp

\* a second passes while exec(code) runs; nothing in execute_code watches the clock
InterpTick ==
    /\ ip_pc = "exec"
    /\ ip_elapsed <= MaxTimeout
    /\ ip_elapsed' = ip_elapsed + 1
    /\ UNCHANGED <<ip_pc, ip_call, ip_stdout, ip_result>>
    /\ UNCHANGED otherThanInterp

\* the result dict of execute_code, with the guidance execute_python adds
InterpResultDict(call, success, output, error) ==
    [kind |-> "dict", success |-> success, output |-> output, error |-> error,
     constitutional_guidance |->
        IF call.via # "execute_python" THEN ""
        ELSE IF success
             THEN "Code executed successfully following constitutional principles"
             ELSE "Code execution failed. Please review and follow Python best practices"]

\* exec(code) ends: the result dict is built, or the exception leaves
\* execute_code (and execute_python) with sys.stdout still redirected
InterpFinish ==
    /\ ip_pc = "exec"
    /\ ip_call.code.ending # "loops"
    /\ LET ending == ip_call.code.ending
       IN  IF ending = "completes"
           THEN /\ ip_pc' = "returned"
                /\ ip_stdout' = "real"
                /\ ip_result' = InterpResultDict(ip_call, TRUE, Strip(ip_call.code.printed), NoError)
           ELSE IF Caught(ending)
           THEN /\ ip_pc' = "returned"
                /\ ip_stdout' = "real"
                /\ ip_result' = InterpResultDict(ip_call, FALSE, << >>, ErrorText(ending))
           ELSE /\ ip_pc' = "raised"
                /\ ip_stdout' = "StringIO"
                /\ ip_result' = [NoInterpResult EXCEPT !.kind = ending]
    /\ UNCHANGED <<ip_call, ip_elapsed>>
    /\ UNCHANGED otherThanInterp

InterpNext == InterpCall \/ InterpTick \/ InterpFinish

(***************************************************************************)
(* src/pybackend/constitution_server.py, langflow_server.py and            *)
(* mock_mcp_server.py: the stdio MCP servers.  A line of input is modelled *)
(* by what json.loads and the dispatch see in it.                          *)
(***************************************************************************)
\* number of lines a client writes before closing stdin
MaxLines == 2

Servers == {"constitution_server", "langflow_server", "mock_mcp_server"}

ParseError == -32700

MethodNotFound == -32601

InternalError == -32603

Absent == "absent"

\* the value of "id" in a request, or Absent
RequestIds == {Absent, "7"}

\* mock_mcp_server: request.get("id", 1), and the fixed id of its error responses
MockDefaultId == "1"

Methods == {"initialize", "tools/list", "tools/call", "constitution/info",
            "langflow/health", "langflow/flows", "no/such"}

Tools == {"execute_python", "get_available_modules", "check_connection", "get_weather",
          "no_such_tool"}

\* the code strings sent to execute_python, by how running them ends
McpCodeEndings == {"completes", "NameError", "SystemExit", "loops"}

\* how a call of the LangflowAgent ends
AgentEndings == {"returns", "raises"}

McpLine(kind, method, id, params, tool, ending) ==
    [kind |-> kind, method |-> method, id |-> id, params |-> params, tool |-> tool,
     ending |-> ending]

\* kind: "blank" (only whitespace), "invalid" (not JSON), "nested" (brackets
\* nested deeper than the recursion limit), "nonobject" (JSON, but not an
\* object) or "request"; params: Absent, "null" or "dict"
Lines ==
    {McpLine(k, "", Absent, Absent, "", "none") : k \in {"blank", "invalid", "nested", "nonobject"}} \cup
    {McpLine("request", m, id, Absent, "", "none") :
        m \in Methods \ {"langflow/health", "langflow/flows"}, id \in RequestIds} \cup
    {McpLine("request", m, id, Absent, "", e) :
        m \in {"langflow/health", "langflow/flows"}, id \in RequestIds, e \in AgentEndings} \cup
    {McpLine("request", "tools/call", id, "null", "", "none") : id \in RequestIds} \cup
    {McpLine("request", "tools/call", id, "dict", t, "none") :
        id \in RequestIds, t \in Tools \ {"execute_python", "check_connection"}} \cup
    {McpLine("request", "tools/call", id, "dict", "execute_python", e) :
        id \in RequestIds, e \in McpCodeEndings} \cup
    {McpLine("request", "tools/call", id, "dict", "check_connection", e) :
        id \in RequestIds, e \in AgentEndings}

NoLine == McpLine("none", "", Absent, Absent, "", "none")

\* what handling a line does: print a response, "skip" the line, "exit" the
\* read loop, or "hang" inside the handler
Outcome(act, jsonrpc, id, kind, code) ==
    [act |-> act, jsonrpc |-> jsonrpc, id |-> id, kind |-> kind, code |-> code]

\* a response dict of constitution_server and langflow_server: only a
\* "result" or an "error" key
Bare(kind, code) == Outcome("respond", Absent, Absent, kind, code)

\* a response dict of mock_mcp_server
Rpc(id, kind, code) == Outcome("respond", "2.0", id, kind, code)

Skip == Outcome("skip", Absent, Absent, "none", 0)

Exit == Outcome("exit", Absent, Absent, "none", 0)

Hang == Outcome("hang", Absent, Absent, "none", 0)

\* the name call_tool looks up: params.get("name")
ToolName(line) == IF line.params = "dict" THEN line.tool ELSE "None"

ConstitutionMCPServer_call_tool(line) ==
    CASE ToolName(line) = "execute_python" ->
            IF line.ending = "loops" THEN Hang
            ELSE IF line.ending = "completes" \/ Caught(line.ending) THEN Bare("result", 0)
            ELSE Exit
      [] ToolName(line) = "get_available_modules" -> Bare("result", 0)
      [] OTHER -> Bare("error", MethodNotFound)

ConstitutionMCPServer_handle_request(line) ==
    CASE line.kind = "nonobject" -> Bare("error", InternalError)
      [] line.method \in {"initialize", "tools/list", "constitution/info"} -> Bare("result", 0)
      [] line.method = "tools/call" ->
            IF line.params = "null" THEN Bare("error", InternalError)
            ELSE ConstitutionMCPServer_call_tool(line)
      [] OTHER -> Bare("error", MethodNotFound)

LangflowMCPServer_call_tool(line) ==
    CASE ToolName(line) = "check_connection" ->
            IF line.ending = "raises" THEN Bare("error", InternalError) ELSE Bare("result", 0)
      [] OTHER -> Bare("error", MethodNotFound)

LangflowMCPServer_handle_request(line) ==
    CASE line.kind = "nonobject" -> Bare("error", InternalError)
      [] line.method \in {"initialize", "tools/list"} -> Bare("result", 0)
      [] line.method \in {"langflow/health", "langflow/flows"} ->
            IF line.ending = "raises" THEN Bare("error", InternalError) ELSE Bare("result", 0)
      [] line.method = "tools/call" ->
            IF line.params = "null" THEN Bare("error", InternalError)
            ELSE LangflowMCPServer_call_tool(line)
      [] OTHER -> Bare("error", MethodNotFound)

\* main() of constitution_server and of langflow_server, handle_request being
\* what the server's handle_request answers to the line: json.loads(line.strip())
\* and handle_request inside 'except json.JSONDecodeError', the loop inside
\* 'except KeyboardInterrupt' and 'except Exception'
main(line, handle_request) ==
    CASE line.kind \in {"blank", "invalid"} -> Bare("error", ParseError)
      [] line.kind = "nested" -> Exit
      [] OTHER -> handle_request

\* the exception handle_request lets out of mock_mcp_server, answered by run()
MockInternalError == Rpc(MockDefaultId, "error", InternalError)

MockMCPServer_handle_request(line) ==
    LET request_id == IF line.id = Absent THEN MockDefaultId ELSE line.id
    IN  CASE line.kind = "nonobject" -> MockInternalError
          [] line.method \in {"initialize", "tools/list"} -> Rpc(request_id, "result", 0)
          [] line.method = "tools/call" ->
                IF line.params = "null" THEN MockInternalError
                ELSE Rpc(request_id, "result", 0)
          [] OTHER -> Rpc(request_id, "error", MethodNotFound)

MockMCPServer_run(line) ==
    CASE line.kind = "blank" -> Skip
      [] line.kind = "invalid" -> Rpc(MockDefaultId, "error", ParseError)
      [] line.kind = "nested" -> MockInternalError
      [] OTHER -> MockMCPServer_handle_request(line)

ServerOutcome(server, line) ==
    CASE server = "constitution_server" -> main(line, ConstitutionMCPServer_handle_request(line))
      [] server = "langflow_server" -> main(line, LangflowMCPServer_handle_request(line))
      [] OTHER -> MockMCPServer_run(line)

\* what the client knows of a line it wrote
LineClass(line) ==
    [class |-> CASE line.kind # "request" -> line.kind
                 [] line.method \notin Methods \ {"no/such"} -> "unknown_method"
                 [] OTHER -> "request",
     id |-> line.id]

McpIdle ==
    /\ mcp_server = "none"
    /\ mcp_pc = "stopped"
    /\ mcp_line = NoLine
    /\ mcp_in = << >>
    /\ mcp_out = << >>

McpStart ==
    /\ mcp_server \in Servers
    /\ mcp_pc = "reading"
    /\ mcp_line = NoLine
    /\ mcp_in = << >>
    /\ mcp_out = << >>

\* sys.stdin.readline() returns a line
McpReadLine ==
    /\ mcp_pc = "reading"
    /\ Len(mcp_in) < MaxLines
    /\ \E line \in Lines :
          /\ mcp_line' = line
          /\ mcp_in' = Append(mcp_in, LineClass(line))
    /\ mcp_pc' = "handling"
    /\ UNCHANGED <<mcp_server, mcp_out>>
    /\ UNCHANGED otherThanMcp

\* sys.stdin.readline() returns '': end of input, the loop ends
McpEndOfInput ==
    /\ mcp_pc = "reading"
    /\ mcp_pc' = "stopped"
    /\ UNCHANGED <<mcp_server, mcp_line, mcp_in, mcp_out>>
    /\ UNCHANGED otherThanMcp

\* the body of the read loop for the line just read
McpHandle ==
    /\ mcp_pc = "handling"
    /\ LET o == ServerOutcome(mcp_server, mcp_line)
       IN  /\ mcp_out' = IF o.act = "respond"
                         THEN Append(mcp_out, [for |-> Len(mcp_in), jsonrpc |-> o.jsonrpc,
                                               id |-> o.id, kind |-> o.kind, code |-> o.code])
                         ELSE mcp_out
           /\ mcp_pc' = CASE o.act \in {"respond", "skip"} -> "reading"
                          [] o.act = "exit" -> "exited"
                          [] OTHER -> "hung"
           /\ mcp_line' = IF o.act \in {"respond", "skip"} THEN NoLine ELSE mcp_line
    /\ UNCHANGED <<mcp_server, mcp_in>>
    /\ UNCHANGED otherThanMcp

McpNext == McpReadLine \/ McpEndOfInput \/ McpHandle

(***************************************************************************)
(* src/pybackend/direct_langflow.py and langflow_agent.py: the HTTP        *)
(* clients of the Langflow server.                                         *)
(***************************************************************************)
LfClients == {"DirectLangflowClient", "LangflowAgent"}

LfMethods(client) ==
    IF client = "DirectLangflowClient"
    THEN {"check_connection", "chat_direct", "run_flow_direct", "get_flow_info_direct",
          "get_available_flows_direct"}
    ELSE {"check_connection", "get_flow_info", "run_flow", "chat_with_flow",
          "get_available_flows", "get_flow_schema"}

\* HTTP statuses the server answers with
LfStatuses == {200, 204, 404, 500}

\* what response.json() finds: an object whose "outputs" is a dict, an object
\* whose "outputs" is a list, an array, or something that is not JSON
LfBodies == {"object", "object_outputs_list", "array", "notjson"}

\* what the server does with a request: the connection is refused, nothing
\* comes back within ClientTimeout(total=30), or a response arrives
LfAnswers ==
    {[conn |-> c, status |-> 0, body |-> "none"] : c \in {"refused", "timeout"}} \cup
    {[conn |-> "ok", status |-> s, body |-> b] : s \in LfStatuses, b \in LfBodies}

\* the exception classes the request and the decoding raise, with str(e)
LfExceptions ==
    {[class |-> "ClientConnectorError", str |-> "Cannot connect to host"],
     [class |-> "TimeoutError", str |-> ""],
     [class |-> "ContentTypeError", str |-> "Attempt to decode JSON with unexpected mimetype"],
     [class |-> "AttributeError", str |-> "object has no attribute 'get'"]}

LfException(class) == CHOOSE e \in LfExceptions : e.class = class

\* only aiohttp.ClientError subclasses are caught
LfCaughtClientErrorOnly(e) == e.class \in {"ClientConnectorError", "ContentTypeError"}

\* 'except Exception as e' of every request method
LfCaught(e) == e \in LfExceptions

LfDict(success, status, error, host_url) ==
    [kind |-> "dict", success |-> success, status |-> status, error |-> error,
     host_url |-> host_url]

LfRaised(e) ==
    [kind |-> e.class, success |-> FALSE, status |-> Absent, error |-> Absent,
     host_url |-> Absent]

NoLfResult == LfDict(FALSE, Absent, Absent, Absent)

\* the exception of the request itself, if any
LfRequestFails(a) == a.conn # "ok"

LfRequestException(a) ==
    IF a.conn = "refused" THEN LfException("ClientConnectorError") ELSE LfException("TimeoutError")

\* the try block of check_connection
LfCheckConnection(client, a) ==
    IF a.status = 200
    THEN IF a.body = "notjson" /\ client = "LangflowAgent"
         THEN LfException("ContentTypeError")
         ELSE LfDict(TRUE, "connected", Absent, "host_url")
    ELSE LfDict(FALSE, "error", "HTTP status", "host_url")

\* the try block of chat_direct, run_flow_direct, run_flow and chat_with_flow
LfRun(client, method, a) ==
    IF a.status = 200
    THEN CASE a.body = "notjson" -> LfException("ContentTypeError")
           [] client = "LangflowAgent" /\ a.body = "array" -> LfException("AttributeError")
           [] method = "chat_with_flow" /\ a.body = "object_outputs_list" ->
                LfException("AttributeError")
           [] OTHER -> LfDict(TRUE, Absent, Absent, Absent)
    ELSE LfDict(FALSE, Absent, "HTTP status: text", Absent)

\* the try block of the flow info, flow schema and flow listing methods
LfGet(a) ==
    IF a.status = 200
    THEN IF a.body = "notjson" THEN LfException("ContentTypeError")
         ELSE LfDict(TRUE, Absent, Absent, Absent)
    ELSE LfDict(FALSE, Absent, "HTTP status", Absent)

LfTry(client, method, a) ==
    IF LfRequestFails(a) THEN LfRequestException(a)
    ELSE CASE method = "check_connection" -> LfCheckConnection(client, a)
           [] method \in {"chat_direct", "run_flow_direct", "run_flow", "chat_with_flow"} ->
                LfRun(client, method, a)
           [] OTHER -> LfGet(a)

\* the except clause: the error dict of the method
LfExcept(method, e) ==
    IF method = "check_connection" THEN LfDict(FALSE, "error", e.str, "host_url")
    ELSE LfDict(FALSE, Absent, e.str, Absent)

NoLfCall == [client |-> "none", method |-> "none", answer |-> [conn |-> "none", status |-> 0, body |-> "none"]]

LfIdle ==
    /\ lf_pc = "idle"
    /\ lf_session = FALSE
    /\ lf_call = NoLfCall
    /\ lf_result = NoLfResult

\* a request method is called: _get_session() and the request is sent
LfCall ==
    /\ lf_pc \in {"idle", "returned", "raised"}
    /\ \E client \in LfClients :
          /\ lf_call.client \in {"none", client}
          /\ \E method \in LfMethods(client) :
                lf_call' = [client |-> client, method |-> method, answer |-> NoLfCall.answer]
    /\ lf_pc' = "awaiting"
    /\ lf_session' = TRUE
    /\ lf_result' = NoLfResult
    /\ UNCHANGED otherThanLf

\* the request ends, the method builds its dict or lets the exception out
LfComplete ==
    /\ lf_pc = "awaiting"
    /\ \E a \in LfAnswers :
          LET r == LfTry(lf_call.client, lf_call.method, a)
          IN  /\ lf_call' = [lf_call EXCEPT !.answer = a]
              /\ IF r \in LfExceptions
                 THEN IF LfCaught(r)
                      THEN lf_pc' = "returned" /\ lf_result' = LfExcept(lf_call.method, r)
                      ELSE lf_pc' = "raised" /\ lf_result' = LfRaised(r)
                 ELSE lf_pc' = "returned" /\ lf_result' = r
    /\ UNCHANGED lf_session
    /\ UNCHANGED otherThanLf

\* close(): the aiohttp session is closed and dropped
LfClose ==
    /\ lf_pc \in {"returned", "raised"}
    /\ lf_session
    /\ lf_session' = FALSE
    /\ UNCHANGED <<lf_pc, lf_call, lf_result>>
    /\ UNCHANGED otherThanLf

LfNext == LfCall \/ LfComplete \/ LfClose

(***************************************************************************)
(* src/VirtualHuman/backend/api/routes/avatar.py: create, update and       *)
(* delete of avatars.  An avatar is modelled by its id and name.           *)
(***************************************************************************)
DEFAULT_AVATARS ==
    [a \in {"teacher", "tutor", "expert"} |->
        [id |-> a,
         name |-> CASE a = "teacher" -> "Professional Teacher"
                    [] a = "tutor" -> "Friendly Tutor"
                    [] OTHER -> "Subject Expert"]]

\* ids a client puts in a request; "" stands for a missing id
AvatarIds == {"teacher", "tutor", "custom_1", "custom_2", ""}

\* names in a request body; "" stands for a missing name
AvatarNames == {"", "A", "B"}

\* bodies of an update request: the keys it carries (Absent: key not sent)
UpdateBodies == {[id |-> i, name |-> n] : i \in {Absent, "teacher"}, n \in {Absent, "A", "B"}}

\* dict.update(avatar_data)
DictUpdate(avatar, avatar_data) ==
    [id |-> IF avatar_data.id = Absent THEN avatar.id ELSE avatar_data.id,
     name |-> IF avatar_data.name = Absent THEN avatar.name ELSE avatar_data.name,
     custom |-> avatar.custom]

\* no id counts as a default avatar
IsDefaultNever(avatar_id) == FALSE

\* avatar_id in DEFAULT_AVATARS
IsDefault(avatar_id) == avatar_id \in DOMAIN default_avatars

NoAvatars == [a \in {} |-> [id |-> a, name |-> "", custom |-> TRUE]]

NoAvResp == [op |-> "none", avatar_id |-> "", status |-> 0, before |-> NoAvatars]

AvResp(op, avatar_id, status) ==
    [op |-> op, avatar_id |-> avatar_id, status |-> status, before |-> custom_avatars]

AvIdle ==
    /\ default_avatars = DEFAULT_AVATARS
    /\ custom_avatars = NoAvatars
    /\ av_resp = NoAvResp

\* POST /create
create_custom_avatar ==
    \E avatar_id \in AvatarIds, name \in AvatarNames :
        /\ IF avatar_id = "" \/ name = ""
           THEN /\ av_resp' = AvResp("create", avatar_id, 400)
                /\ UNCHANGED custom_avatars
           ELSE IF avatar_id \in DOMAIN custom_avatars
           THEN /\ av_resp' = AvResp("create", avatar_id, 400)
                /\ UNCHANGED custom_avatars
           ELSE /\ custom_avatars' =
                      [a \in DOMAIN custom_avatars \cup {avatar_id} |->
                          IF a = avatar_id THEN [id |-> avatar_id, name |-> name, custom |-> TRUE]
                          ELSE custom_avatars[a]]
                /\ av_resp' = AvResp("create", avatar_id, 200)
        /\ UNCHANGED default_avatars
        /\ UNCHANGED otherThanAv

\* PUT /update/{avatar_id}
update_avatar ==
    \E avatar_id \in AvatarIds \ {""}, avatar_data \in UpdateBodies :
        /\ IF IsDefault(avatar_id)
           THEN /\ av_resp' = AvResp("update", avatar_id, 400)
                /\ UNCHANGED custom_avatars
           ELSE IF avatar_id \notin DOMAIN custom_avatars
           THEN /\ av_resp' = AvResp("update", avatar_id, 404)
                /\ UNCHANGED custom_avatars
           ELSE /\ custom_avatars' =
                      [custom_avatars EXCEPT ![avatar_id] = DictUpdate(@, avatar_data)]
                /\ av_resp' = AvResp("update", avatar_id, 200)
        /\ UNCHANGED default_avatars
        /\ UNCHANGED otherThanAv

\* DELETE /delete/{avatar_id}
delete_avatar ==
    \E avatar_id \in AvatarIds \ {""} :
        /\ IF IsDefault(avatar_id)
           THEN /\ av_resp' = AvResp("delete", avatar_id, 400)
                /\ UNCHANGED custom_avatars
           ELSE IF avatar_id \notin DOMAIN custom_avatars
           THEN /\ av_resp' = AvResp("delete", avatar_id, 404)
                /\ UNCHANGED custom_avatars
           ELSE /\ custom_avatars' =
                      [a \in DOMAIN custom_avatars \ {avatar_id} |-> custom_avatars[a]]
                /\ av_resp' = AvResp("delete", avatar_id, 200)
        /\ UNCHANGED default_avatars
        /\ UNCHANGED otherThanAv

AvNext == create_custom_avatar \/ update_avatar \/ delete_avatar

(***************************************************************************)
(* src/backend/core/llm_service.py and                                     *)
(* src/VirtualHuman/backend/core/llm_service.py: the stored conversation   *)
(* history and the message list built from it, over long runs of calls.    *)
(* The user input of the n-th exchange appended to a history since it was  *)
(* last cleared is the number n; a reply carries the number of its input.  *)
(***************************************************************************)
\* generate_response calls in a run, over all histories
MaxHistCalls == 11

HistSessions == {"A", "B"}

\* the histories: one per src/backend session, one for VirtualHuman
Histories == HistSessions \cup {"VirtualHuman"}

\* how the LLM request of a call ends: a reply with text, a reply whose
\* message.content is None, or an exception
LLMOutcomes == {"reply", "no_content", "fails"}

Message(role, content) == [role |-> role, content |-> content]

\* s[-n:]
LastN(s, n) == IF Len(s) > n THEN SubSeq(s, Len(s) - n + 1, Len(s)) ELSE s

\* the update that stores only the reply
ExchangeReplyOnly(user_input) == <<Message("assistant", user_input)>>

\* the two messages one call appends: the user input and the reply to it
Exchange(user_input) == <<Message("user", user_input), Message("assistant", user_input)>>

\* the history update without the truncation
_update_conversation_history_uncapped(h, user_input) == h \o Exchange(user_input)

\* src/backend _update_conversation_history applied to the session's list h
_update_conversation_history(h, user_input) == LastN(h \o Exchange(user_input), 20)

\* the message list with the whole stored history in it
_build_messages_whole_history(h, user_input) ==
    <<Message("system", 0)>> \o h \o <<Message("user", user_input)>>

\* _build_messages of both services, h being the stored history
_build_messages(h, user_input) ==
    <<Message("system", 0)>> \o LastN(h, 10) \o <<Message("user", user_input)>>

NoBuilt == [history |-> "none", user_input |-> 0, stored |-> << >>, messages |-> << >>]

Built(history, user_input, stored) ==
    [history |-> history, user_input |-> user_input, stored |-> stored,
     messages |-> _build_messages(stored, user_input)]

\* the list stored for a src/backend session: _conversation_history.get(session_id, [])
BkStored(session_id) ==
    IF session_id \in DOMAIN bk_history THEN bk_history[session_id] ELSE << >>

HistIdle ==
    /\ bk_history = [s \in {} |-> << >>]
    /\ vhh_history = << >>
    /\ hs_demo_mode = FALSE
    /\ hs_log = [h \in Histories |-> << >>]
    /\ hs_calls = 0
    /\ hs_built = NoBuilt

\* the services as constructed; VirtualHuman runs in demo mode or with a client
HistStart ==
    /\ bk_history = [s \in {} |-> << >>]
    /\ vhh_history = << >>
    /\ hs_demo_mode \in BOOLEAN
    /\ hs_log = [h \in Histories |-> << >>]
    /\ hs_calls = 0
    /\ hs_built = NoBuilt

\* the user input of the next call on a history
NextInput(history) == Len(hs_log[history]) \div 2 + 1

\* src/backend generate_response(user_input, session_id): the messages are
\* built, the LLM is called, and unless the request fails the history is updated
BkGenerate ==
    /\ hs_calls < MaxHistCalls
    /\ \E session_id \in HistSessions, outcome \in LLMOutcomes :
          LET user_input == NextInput(session_id)
          IN  /\ hs_calls' = hs_calls + 1
              /\ hs_built' = Built(session_id, user_input, BkStored(session_id))
              /\ IF outcome = "fails"
                 THEN UNCHANGED <<bk_history, hs_log>>
                 ELSE /\ bk_history' =
                            [s \in DOMAIN bk_history \cup {session_id} |->
                                IF s = session_id
                                THEN _update_conversation_history(BkStored(session_id), user_input)
                                ELSE bk_history[s]]
                      /\ hs_log' = [hs_log EXCEPT ![session_id] = @ \o Exchange(user_input)]
    /\ UNCHANGED <<vhh_history, hs_demo_mode>>
    /\ UNCHANGED otherThanHist

\* src/backend clear_conversation_history(session_id)
BkClear ==
    /\ \E session_id \in DOMAIN bk_history :
          /\ bk_history' = [s \in DOMAIN bk_history \ {session_id} |-> bk_history[s]]
          /\ hs_log' = [hs_log EXCEPT ![session_id] = << >>]
    /\ UNCHANGED <<vhh_history, hs_demo_mode, hs_calls, hs_built>>
    /\ UNCHANGED otherThanHist

\* the update of the VirtualHuman history, on the representation used here
VhhUpdate(h, user_input) ==
    LET updated == VHUpdateHistory(h, user_input, user_input)
    IN  [i \in 1..Len(updated) |-> Message(updated[i].role, updated[i].content)]

\* VirtualHuman generate_response(user_input): in demo mode the history is
\* updated with the canned reply; otherwise the messages are built, the LLM
\* is called and the history updated with the reply, or with the canned reply
\* in the except branch; a reply without content does both
VhhGenerate ==
    /\ hs_calls < MaxHistCalls
    /\ \E outcome \in LLMOutcomes :
          LET user_input == NextInput("VirtualHuman")
              once == VhhUpdate(vhh_history, user_input)
          IN  /\ hs_calls' = hs_calls + 1
              /\ hs_built' = IF hs_demo_mode THEN hs_built
                             ELSE Built("VirtualHuman", user_input, vhh_history)
              /\ IF ~hs_demo_mode /\ outcome = "no_content"
                 THEN /\ vhh_history' = VhhUpdate(once, user_input)
                      /\ hs_log' = [hs_log EXCEPT !["VirtualHuman"] =
                                        @ \o Exchange(user_input) \o Exchange(user_input)]
                 ELSE /\ vhh_history' = once
                      /\ hs_log' = [hs_log EXCEPT !["VirtualHuman"] = @ \o Exchange(user_input)]
    /\ UNCHANGED <<bk_history, hs_demo_mode>>
    /\ UNCHANGED otherThanHist

\* VirtualHuman clear_conversation_history()
VhhClear ==
    /\ vhh_history # << >>
    /\ vhh_history' = << >>
    /\ hs_log' = [hs_log EXCEPT !["VirtualHuman"] = << >>]
    /\ UNCHANGED <<bk_history, hs_demo_mode, hs_calls, hs_built>>
    /\ UNCHANGED otherThanHist

HistNext == BkGenerate \/ BkClear \/ VhhGenerate \/ VhhClear

(***************************************************************************)
(* src/backend/api/routes/chat.py send_message and clear_session over      *)
(* LLMService, with requests interleaving at their await points.  The      *)
(* message of the n-th request is the number n.                            *)
(***************************************************************************)
\* requests in flight at the same time
NumChatSlots == 2

\* /api/chat/send requests in a run
MaxChatCalls == 2

ChatSlots == 1..NumChatSlots

NoChatReq == [session_id |-> "none", message |-> 0, use_voice |-> FALSE, llm |-> "none",
              status |-> 0]

ChatIdle ==
    /\ ch_client = FALSE
    /\ ch_audio = FALSE
    /\ ch_history = [s \in {} |-> << >>]
    /\ ch_started = 0
    /\ ch_pc = [c \in ChatSlots |-> "idle"]
    /\ ch_req = [c \in ChatSlots |-> NoChatReq]

\* the app after startup: each service initialized or not
ChatStart ==
    /\ ch_client \in BOOLEAN
    /\ ch_audio \in BOOLEAN
    /\ ch_history = [s \in {} |-> << >>]
    /\ ch_started = 0
    /\ ch_pc = [c \in ChatSlots |-> "idle"]
    /\ ch_req = [c \in ChatSlots |-> NoChatReq]

ChatStored(session_id) ==
    IF session_id \in DOMAIN ch_history THEN ch_history[session_id] ELSE << >>

\* the except clause of send_message: HTTPException(status_code=500)
ChatFail(c, req) ==
    /\ ch_pc' = [ch_pc EXCEPT ![c] = "done"]
    /\ ch_req' = [ch_req EXCEPT ![c] = [req EXCEPT !.status = 500]]

\* send_message up to the LLM request inside generate_response
ChatSendEnter(c) ==
    /\ ch_pc[c] \in {"idle", "done"}
    /\ ch_started < MaxChatCalls
    /\ ch_started' = ch_started + 1
    /\ \E session_id \in HistSessions, use_voice \in BOOLEAN :
          LET req == [NoChatReq EXCEPT !.session_id = session_id, !.message = ch_started + 1,
                                       !.use_voice = use_voice]
          IN  IF ~ch_client
              THEN ChatFail(c, req)
              ELSE /\ ch_pc' = [ch_pc EXCEPT ![c] = "llm"]
                   /\ ch_req' = [ch_req EXCEPT ![c] = req]
    /\ UNCHANGED <<ch_client, ch_audio, ch_history>>
    /\ UNCHANGED otherThanChat

\* the LLM request ends; on a reply the history is updated, the reply is
\* analysed (which raises when it has no content), the animation is created
\* and send_animation_data awaited
ChatLLMReturns(c) ==
    /\ ch_pc[c] = "llm"
    /\ \E outcome \in LLMOutcomes :
          LET req == [ch_req[c] EXCEPT !.llm = outcome]
          IN  /\ IF outcome = "fails"
                 THEN UNCHANGED ch_history
                 ELSE ch_history' =
                        [s \in DOMAIN ch_history \cup {req.session_id} |->
                            IF s = req.session_id
                            THEN _update_conversation_history(ChatStored(s), req.message)
                            ELSE ch_history[s]]
              /\ IF outcome = "reply"
                 THEN /\ ch_pc' = [ch_pc EXCEPT ![c] = "unity"]
                      /\ ch_req' = [ch_req EXCEPT ![c] = req]
                 ELSE ChatFail(c, req)
    /\ UNCHANGED <<ch_client, ch_audio, ch_started>>
    /\ UNCHANGED otherThanChat

\* send_animation_data returns (True or False, it never raises); without
\* use_voice the response is returned, otherwise text_to_speech starts
ChatUnityReturns(c) ==
    /\ ch_pc[c] = "unity"
    /\ IF ~ch_req[c].use_voice
       THEN /\ ch_pc' = [ch_pc EXCEPT ![c] = "done"]
            /\ ch_req' = [ch_req EXCEPT ![c].status = 200]
       ELSE IF ~ch_audio
       THEN ChatFail(c, ch_req[c])
       ELSE /\ ch_pc' = [ch_pc EXCEPT ![c] = "tts"]
            /\ UNCHANGED ch_req
    /\ UNCHANGED <<ch_client, ch_audio, ch_history, ch_started>>
    /\ UNCHANGED otherThanChat

\* the ElevenLabs call of text_to_speech returns audio or raises
ChatTTSReturns(c) ==
    /\ ch_pc[c] = "tts"
    /\ \E ok \in BOOLEAN :
          IF ok
          THEN /\ ch_pc' = [ch_pc EXCEPT ![c] = "done"]
               /\ ch_req' = [ch_req EXCEPT ![c].status = 200]
          ELSE ChatFail(c, ch_req[c])
    /\ UNCHANGED <<ch_client, ch_audio, ch_history, ch_started>>
    /\ UNCHANGED otherThanChat

\* DELETE /sessions/{session_id}: clear_conversation_history
ChatClear ==
    /\ \E session_id \in DOMAIN ch_history :
          ch_history' = [s \in DOMAIN ch_history \ {session_id} |-> ch_history[s]]
    /\ UNCHANGED <<ch_client, ch_audio, ch_started, ch_pc, ch_req>>
    /\ UNCHANGED otherThanChat

ChatNext ==
    \/ \E c \in ChatSlots :
          \/ ChatSendEnter(c)
          \/ ChatLLMReturns(c)
          \/ ChatUnityReturns(c)
          \/ ChatTTSReturns(c)
    \/ ChatClear

(***************************************************************************)
(* src/VirtualHuman/backend/api/routes/chat.py over LLMService: chat       *)
(* sessions.  A user input is identified by the session it was typed in    *)
(* and its number; a reply by the input it answers and where it came from. *)
(***************************************************************************)
\* /send requests in a run
MaxSessCalls == 3

\* the messages of the {"user", "assistant"} entries the route stores
Flatten(entries) ==
    [i \in 1..2 * Len(entries) |->
        IF i % 2 = 1 THEN Message("user", entries[(i + 1) \div 2].user)
        ELSE Message("assistant", entries[i \div 2].assistant)]

\* GET /history/{session_id}
HistoryEndpoint(session_id) ==
    IF session_id \in DOMAIN conversation_history
    THEN conversation_history[session_id]
    ELSE << >>

NoSessBuilt == [session_id |-> "none", endpoint |-> << >>, messages |-> << >>]

SessIdle ==
    /\ vs_demo_mode = FALSE
    /\ vs_llm_history = << >>
    /\ conversation_history = [s \in {} |-> << >>]
    /\ vs_calls = 0
    /\ vs_built = NoSessBuilt

SessStart ==
    /\ vs_demo_mode \in BOOLEAN
    /\ vs_llm_history = << >>
    /\ conversation_history = [s \in {} |-> << >>]
    /\ vs_calls = 0
    /\ vs_built = NoSessBuilt

\* POST /send with a non-empty message (an empty one is rejected before any
\* state is touched): generate_response(user_input, session_id=session_id),
\* which does not use session_id except to echo it, then the route's append
VsSendMessage ==
    /\ vs_calls < MaxSessCalls
    /\ vs_calls' = vs_calls + 1
    /\ \E session_id \in HistSessions, outcome \in LLMOutcomes :
          LET user_input == [session |-> session_id, n |-> vs_calls + 1]
              production == ~vs_demo_mode /\ outcome = "reply"
              response == [of |-> user_input, kind |-> IF production THEN "llm" ELSE "demo"]
              first == IF ~vs_demo_mode /\ outcome = "no_content"
                       THEN VHUpdateHistory(vs_llm_history, user_input,
                                            [of |-> user_input, kind |-> NoContent])
                       ELSE vs_llm_history
          IN  /\ vs_llm_history' = VHUpdateHistory(first, user_input, response)
              /\ vs_built' =
                    IF vs_demo_mode THEN vs_built
                    ELSE [session_id |-> session_id,
                          endpoint |-> HistoryEndpoint(session_id),
                          messages |-> _build_messages(vs_llm_history, user_input)]
              /\ conversation_history' =
                    [s \in DOMAIN conversation_history \cup {session_id} |->
                        IF s = session_id
                        THEN Append(HistoryEndpoint(s), [user |-> user_input, assistant |-> response])
                        ELSE conversation_history[s]]
    /\ UNCHANGED vs_demo_mode
    /\ UNCHANGED otherThanSess

\* DELETE /sessions/{session_id}
delete_session ==
    /\ \E session_id \in DOMAIN conversation_history :
          conversation_history' =
              [s \in DOMAIN conversation_history \ {session_id} |-> conversation_history[s]]
    /\ UNCHANGED <<vs_demo_mode, vs_llm_history, vs_calls, vs_built>>
    /\ UNCHANGED otherThanSess

SessNext == VsSendMessage \/ delete_session

(***************************************************************************)
(* src/pybackend/langflow_registry.py: LangflowFlowRegistry.  Strings are  *)
(* sequences of one-character strings.                                     *)
(***************************************************************************)
\* registry operations in a run
MaxRegOps == 3

\* set_active_flow calls counted per flow
MaxUsage == 1

RECURSIVE Rep(_, _)
Rep(c, n) == IF n = 0 THEN << >> ELSE <<c>> \o Rep(c, n - 1)

\* flow ids a caller passes
UuidHyphenated ==
    Rep("b", 8) \o <<"-">> \o Rep("2", 4) \o <<"-">> \o Rep("4", 4) \o <<"-">> \o Rep("B", 4)
        \o <<"-">> \o Rep("5", 12)

UuidBraced == <<"{">> \o Rep("a", 32) \o <<"}">>

UuidUrn == <<"u", "r", "n", ":", "u", "u", "i", "d", ":">> \o Rep("0", 32)

TooShort == Rep("a", 31)

NotHex == Rep("a", 31) \o <<"g">>

FlowIds == {UuidHyphenated, UuidBraced, UuidUrn, TooShort, NotHex, << >>}

\* flow names a caller passes
FlowNames == {<<"A", " ", "b">>, <<"a", "-", "b">>, <<"c">>}

HexDigits == {"0", "1", "2", "3", "4", "5", "6", "7", "8", "9",
              "a", "b", "c", "d", "e", "f", "A", "B", "C", "D", "E", "F"}

\* str.lower() on the letters used here
Lower(c) == CASE c = "A" -> "a" [] c = "B" -> "b" [] OTHER -> c

\* name.lower().replace(" ", "_").replace("-", "_")
FlowKey(name) ==
    [i \in 1..Len(name) |-> IF Lower(name[i]) \in {" ", "-"} THEN "_" ELSE Lower(name[i])]

\* str.replace(sub, '')
RECURSIVE RemoveAll(_, _)
RemoveAll(s, sub) ==
    IF Len(s) < Len(sub) THEN s
    ELSE IF SubSeq(s, 1, Len(sub)) = sub
         THEN RemoveAll(SubSeq(s, Len(sub) + 1, Len(s)), sub)
         ELSE <<Head(s)>> \o RemoveAll(Tail(s), sub)

\* str.strip('{}')
RECURSIVE StripBraces(_)
StripBraces(s) ==
    IF s # << >> /\ Head(s) \in {"{", "}"} THEN StripBraces(Tail(s))
    ELSE IF s # << >> /\ s[Len(s)] \in {"{", "}"} THEN StripBraces(SubSeq(s, 1, Len(s) - 1))
    ELSE s

\* the hex string uuid.UUID(uuid_string) parses
UuidHex(uuid_string) ==
    RemoveAll(StripBraces(RemoveAll(RemoveAll(uuid_string, <<"u", "r", "n", ":">>),
                                    <<"u", "u", "i", "d", ":">>)), <<"-">>)

\* every flow id passes the check
_is_valid_uuid_always(uuid_string) == TRUE

\* _is_valid_uuid: uuid.UUID(uuid_string) does not raise ValueError
_is_valid_uuid(uuid_string) ==
    /\ Len(UuidHex(uuid_string)) = 32
    /\ \A i \in 1..32 : UuidHex(uuid_string)[i] \in HexDigits

\* the flow ids of FlowIds that pass _is_valid_uuid
ValidFlowIds == {flow_id \in FlowIds : _is_valid_uuid(flow_id)}

\* the keys of the names of FlowNames
FlowKeys == {FlowKey(name) : name \in FlowNames}

DefaultKey == <<"d", "e", "f", "a", "u", "l", "t">>

Flow(id, name) ==
    [id |-> id, name |-> name, is_active |-> TRUE, last_used |-> "None", usage_count |-> 0]

\* load_registry without a registry file: the sample flow
DefaultFlows == [k \in {DefaultKey} |-> Flow(UuidHyphenated, <<"D">>)]

NoFileYet == [k \in {} |-> Flow(<< >>, << >>)]

NoRegResult == [op |-> "none", flow_id |-> << >>, name |-> << >>, flow_key |-> << >>,
                success |-> FALSE, flows_before |-> NoFileYet, file_before |-> NoFileYet]

RegResult(op, flow_id, name, flow_key, success) ==
    [op |-> op, flow_id |-> flow_id, name |-> name, flow_key |-> flow_key, success |-> success,
     flows_before |-> flows, file_before |-> registry_file]

RegIdle ==
    /\ flows = NoFileYet
    /\ registry_file = NoFileYet
    /\ rg_ops = 0
    /\ rg_result = NoRegResult

\* __init__ with no registry file present: the default registry, saved if
\* the file can be written
RegStart ==
    /\ flows = DefaultFlows
    /\ registry_file \in {DefaultFlows, NoFileYet}
    /\ rg_ops = 0
    /\ rg_result = NoRegResult

\* save_registry: the file is rewritten, or the error is logged and swallowed
save_registry(new_flows) == registry_file' \in {new_flows, registry_file}

register_flow ==
    /\ rg_ops < MaxRegOps
    /\ rg_ops' = rg_ops + 1
    /\ \E flow_id \in FlowIds, name \in FlowNames :
          LET flow_key == FlowKey(name)
          IN  IF flow_key \in DOMAIN flows \/ flow_id \notin ValidFlowIds
              THEN /\ rg_result' = RegResult("register", flow_id, name, flow_key, FALSE)
                   /\ UNCHANGED <<flows, registry_file>>
              ELSE /\ flows' = [k \in DOMAIN flows \cup {flow_key} |->
                                   IF k = flow_key THEN Flow(flow_id, name) ELSE flows[k]]
                   /\ save_registry(flows')
                   /\ rg_result' = RegResult("register", flow_id, name, flow_key, TRUE)
    /\ UNCHANGED otherThanReg

\* update_flow(flow_key, {"is_active": value})
update_flow ==
    /\ rg_ops < MaxRegOps
    /\ rg_ops' = rg_ops + 1
    /\ \E flow_key \in FlowKeys \cup {DefaultKey}, value \in BOOLEAN :
          IF flow_key \notin DOMAIN flows
          THEN /\ rg_result' = RegResult("update", << >>, << >>, flow_key, FALSE)
               /\ UNCHANGED <<flows, registry_file>>
          ELSE /\ flows' = [flows EXCEPT ![flow_key].is_active = value]
               /\ save_registry(flows')
               /\ rg_result' = RegResult("update", << >>, << >>, flow_key, TRUE)
    /\ UNCHANGED otherThanReg

delete_flow ==
    /\ rg_ops < MaxRegOps
    /\ rg_ops' = rg_ops + 1
    /\ \E flow_key \in FlowKeys \cup {DefaultKey} :
          IF flow_key \notin DOMAIN flows
          THEN /\ rg_result' = RegResult("delete", << >>, << >>, flow_key, FALSE)
               /\ UNCHANGED <<flows, registry_file>>
          ELSE /\ flows' = [k \in DOMAIN flows \ {flow_key} |-> flows[k]]
               /\ save_registry(flows')
               /\ rg_result' = RegResult("delete", << >>, << >>, flow_key, TRUE)
    /\ UNCHANGED otherThanReg

set_active_flow ==
    /\ rg_ops < MaxRegOps
    /\ rg_ops' = rg_ops + 1
    /\ \E flow_key \in FlowKeys \cup {DefaultKey} :
          IF flow_key \notin DOMAIN flows
          THEN /\ rg_result' = RegResult("set_active", << >>, << >>, flow_key, FALSE)
               /\ UNCHANGED <<flows, registry_file>>
          ELSE /\ flows[flow_key].usage_count < MaxUsage
               /\ flows' = [flows EXCEPT ![flow_key].last_used = "set",
                                         ![flow_key].usage_count = @ + 1]
               /\ save_registry(flows')
               /\ rg_result' = RegResult("set_active", << >>, << >>, flow_key, TRUE)
    /\ UNCHANGED otherThanReg

RegNext == register_flow \/ update_flow \/ delete_flow \/ set_active_flow

(***************************************************************************)
(* src/pybackend/main.py, the /api/mcps endpoints.  The handlers are plain *)
(* def functions, which FastAPI runs on threadpool workers, so they        *)
(* interleave at every file operation.  An MCP is identified by its id.    *)
(***************************************************************************)
\* threadpool workers serving /api/mcps
NumWorkers == 2

\* requests in a run
MaxMcpsCalls == 3

Workers == 1..NumWorkers

McpIds == {"a", "b"}

McpsOps == {"add", "update", "delete", "list"}

McpsRequests == [op : McpsOps, id : McpIds]

\* the states of mcps.json: not created yet, opened for writing and still
\* empty, holding a JSON list, or holding bytes that are no JSON document
NoFile == [kind |-> "absent", mcps |-> << >>]

EmptyFile == [kind |-> "empty", mcps |-> << >>]

CorruptFile == [kind |-> "corrupt", mcps |-> << >>]

JsonFile(mcps) == [kind |-> "json", mcps |-> mcps]

\* read_mcps(): [] when the file does not exist, otherwise json.load, which
\* raises JSONDecodeError on an empty or garbled file
read_mcps ==
    IF mcps_json.kind = "absent" THEN [ok |-> TRUE, mcps |-> << >>]
    ELSE IF mcps_json.kind = "json" THEN [ok |-> TRUE, mcps |-> mcps_json.mcps]
    ELSE [ok |-> FALSE, mcps |-> << >>]

\* any(m["id"] == id for m in mcps)
HasId(mcps, id) == \E i \in 1..Len(mcps) : mcps[i] = id

\* mcps.pop(i) for the first i with that id
PopFirst(mcps, id) ==
    LET i == CHOOSE k \in 1..Len(mcps) :
                 mcps[k] = id /\ \A j \in 1..(k - 1) : mcps[j] # id
    IN  [j \in 1..(Len(mcps) - 1) |-> IF j < i THEN mcps[j] ELSE mcps[j + 1]]

\* what json.dump leaves in a file opened with "w": the writer's list when the
\* file is still empty; when another writer has written since the open, the
\* writer's bytes laid over the other's from offset 0, which is the writer's
\* list or, when the other's text was longer, no JSON document
Dumped(mcps) ==
    IF mcps_json.kind = "empty" THEN {JsonFile(mcps)}
    ELSE {JsonFile(mcps), CorruptFile}

NoRequest == [op |-> "none", id |-> "none"]

NoGet == [status |-> 0, body |-> << >>, acked |-> {}]

McpsIdle ==
    /\ mcps_json = NoFile
    /\ ms_pc = [t \in Workers |-> "idle"]
    /\ ms_req = [t \in Workers |-> NoRequest]
    /\ ms_mcps = [t \in Workers |-> << >>]
    /\ ms_status = 0
    /\ ms_log = << >>
    /\ ms_acked = {}
    /\ ms_get = NoGet

\* a request arrives and is handed to a free worker
McpsReceive(t) ==
    /\ ms_pc[t] = "idle"
    /\ Len(ms_log) < MaxMcpsCalls
    /\ \E req \in McpsRequests :
          /\ ms_req' = [ms_req EXCEPT ![t] = req]
          /\ ms_log' = Append(ms_log, req)
    /\ ms_pc' = [ms_pc EXCEPT ![t] = "read"]
    /\ UNCHANGED <<mcps_json, ms_mcps, ms_status, ms_acked, ms_get>>
    /\ UNCHANGED otherThanMcps

\* the handler returns or raises: the worker answers and its locals are gone
McpsAnswer(t, status) ==
    /\ ms_pc' = [ms_pc EXCEPT ![t] = "idle"]
    /\ ms_status' = status
    /\ ms_req' = [ms_req EXCEPT ![t] = NoRequest]
    /\ ms_mcps' = [ms_mcps EXCEPT ![t] = << >>]

\* GET /api/mcps
list_mcps(t) ==
    /\ ms_pc[t] = "read"
    /\ ms_req[t].op = "list"
    /\ IF read_mcps.ok
       THEN /\ McpsAnswer(t, 200)
            /\ ms_get' = [status |-> 200, body |-> read_mcps.mcps, acked |-> ms_acked]
       ELSE /\ McpsAnswer(t, 500)
            /\ ms_get' = [status |-> 500, body |-> << >>, acked |-> ms_acked]
    /\ UNCHANGED <<mcps_json, ms_log, ms_acked>>
    /\ UNCHANGED otherThanMcps

\* POST /api/mcps up to write_mcps(mcps)
add_mcp(t) ==
    /\ ms_pc[t] = "read"
    /\ ms_req[t].op = "add"
    /\ IF ~read_mcps.ok
       THEN McpsAnswer(t, 500)
       ELSE IF HasId(read_mcps.mcps, ms_req[t].id)
       THEN McpsAnswer(t, 400)
       ELSE /\ ms_mcps' = [ms_mcps EXCEPT ![t] = Append(read_mcps.mcps, ms_req[t].id)]
            /\ ms_pc' = [ms_pc EXCEPT ![t] = "open"]
            /\ UNCHANGED <<ms_status, ms_req>>
    /\ UNCHANGED <<mcps_json, ms_log, ms_acked, ms_get>>
    /\ UNCHANGED otherThanMcps

\* PUT /api/mcps/{mcp_id} up to write_mcps(mcps), with a body of the same id
update_mcp(t) ==
    /\ ms_pc[t] = "read"
    /\ ms_req[t].op = "update"
    /\ IF ~read_mcps.ok
       THEN McpsAnswer(t, 500)
       ELSE IF ~HasId(read_mcps.mcps, ms_req[t].id)
       THEN McpsAnswer(t, 404)
       ELSE /\ ms_mcps' = [ms_mcps EXCEPT ![t] = read_mcps.mcps]
            /\ ms_pc' = [ms_pc EXCEPT ![t] = "open"]
            /\ UNCHANGED <<ms_status, ms_req>>
    /\ UNCHANGED <<mcps_json, ms_log, ms_acked, ms_get>>
    /\ UNCHANGED otherThanMcps

\* DELETE /api/mcps/{mcp_id} up to write_mcps(mcps)
delete_mcp(t) ==
    /\ ms_pc[t] = "read"
    /\ ms_req[t].op = "delete"
    /\ IF ~read_mcps.ok
       THEN McpsAnswer(t, 500)
       ELSE IF ~HasId(read_mcps.mcps, ms_req[t].id)
       THEN McpsAnswer(t, 404)
       ELSE /\ ms_mcps' = [ms_mcps EXCEPT ![t] = PopFirst(read_mcps.mcps, ms_req[t].id)]
            /\ ms_pc' = [ms_pc EXCEPT ![t] = "open"]
            /\ UNCHANGED <<ms_status, ms_req>>
    /\ UNCHANGED <<mcps_json, ms_log, ms_acked, ms_get>>
    /\ UNCHANGED otherThanMcps

\* write_mcps: open(MCP_FILE, "w") truncates the file
write_mcps_open(t) ==
    /\ ms_pc[t] = "open"
    /\ mcps_json' = EmptyFile
    /\ ms_pc' = [ms_pc EXCEPT ![t] = "dump"]
    /\ UNCHANGED <<ms_req, ms_mcps, ms_status, ms_log, ms_acked, ms_get>>
    /\ UNCHANGED otherThanMcps

\* write_mcps: json.dump and the close that flushes it, then the handler's
\* return
write_mcps_dump(t) ==
    /\ ms_pc[t] = "dump"
    /\ mcps_json' \in Dumped(ms_mcps[t])
    /\ McpsAnswer(t, 200)
    /\ ms_acked' =
          IF ms_req[t].op = "add" THEN ms_acked \cup {ms_req[t].id}
          ELSE IF ms_req[t].op = "delete" THEN ms_acked \ {ms_req[t].id}
          ELSE ms_acked
    /\ UNCHANGED <<ms_log, ms_get>>
    /\ UNCHANGED otherThanMcps

McpsNext ==
    \E t \in Workers :
        \/ McpsReceive(t)
        \/ list_mcps(t)
        \/ add_mcp(t)
        \/ update_mcp(t)
        \/ delete_mcp(t)
        \/ write_mcps_open(t)
        \/ write_mcps_dump(t)

(***************************************************************************)
(* Specifications: one per service; the other services stay idle.          *)
(***************************************************************************)
InitAnim == AnimStart /\ UnityIdle /\ VHIdle /\ RouteIdle /\ InterpIdle /\ McpIdle /\ LfIdle /\ AvIdle /\ HistIdle /\ ChatIdle /\ SessIdle /\ RegIdle /\ McpsIdle

SpecAnim == InitAnim /\ [][AnimNext]_vars

InitUnity == UnityIdle /\ AnimIdle /\ VHIdle /\ RouteIdle /\ InterpIdle /\ McpIdle /\ LfIdle /\ AvIdle /\ HistIdle /\ ChatIdle /\ SessIdle /\ RegIdle /\ McpsIdle

SpecUnity == InitUnity /\ [][UnityNext]_vars

InitVH == VHStart /\ AnimIdle /\ UnityIdle /\ RouteIdle /\ InterpIdle /\ McpIdle /\ LfIdle /\ AvIdle /\ HistIdle /\ ChatIdle /\ SessIdle /\ RegIdle /\ McpsIdle

SpecVH == InitVH /\ [][VHNext]_vars

InitRoute == RouteIdle /\ AnimIdle /\ UnityIdle /\ VHIdle /\ InterpIdle /\ McpIdle /\ LfIdle /\ AvIdle /\ HistIdle /\ ChatIdle /\ SessIdle /\ RegIdle /\ McpsIdle

SpecRoutes == InitRoute /\ [][RouteNext]_vars

InitInterp == InterpIdle /\ AnimIdle /\ UnityIdle /\ VHIdle /\ RouteIdle /\ McpIdle /\ LfIdle /\ AvIdle /\ HistIdle /\ ChatIdle /\ SessIdle /\ RegIdle /\ McpsIdle

SpecInterp == InitInterp /\ [][InterpNext]_vars

InitMcp == McpStart /\ AnimIdle /\ UnityIdle /\ VHIdle /\ RouteIdle /\ InterpIdle /\ LfIdle /\ AvIdle /\ HistIdle /\ ChatIdle /\ SessIdle /\ RegIdle /\ McpsIdle

SpecMcp == InitMcp /\ [][McpNext]_vars

InitLf == LfIdle /\ AnimIdle /\ UnityIdle /\ VHIdle /\ RouteIdle /\ InterpIdle /\ McpIdle /\ AvIdle /\ HistIdle /\ ChatIdle /\ SessIdle /\ RegIdle /\ McpsIdle

SpecLangflow == InitLf /\ [][LfNext]_vars

InitAv == AvIdle /\ AnimIdle /\ UnityIdle /\ VHIdle /\ RouteIdle /\ InterpIdle /\ McpIdle /\ LfIdle /\ HistIdle /\ ChatIdle /\ SessIdle /\ RegIdle /\ McpsIdle

SpecAvatar == InitAv /\ [][AvNext]_vars

InitHist == HistStart /\ AnimIdle /\ UnityIdle /\ VHIdle /\ RouteIdle /\ InterpIdle /\ McpIdle /\ LfIdle /\ AvIdle /\ ChatIdle /\ SessIdle /\ RegIdle /\ McpsIdle

SpecHistory == InitHist /\ [][HistNext]_vars

InitChat == ChatStart /\ AnimIdle /\ UnityIdle /\ VHIdle /\ RouteIdle /\ InterpIdle /\ McpIdle /\ LfIdle /\ AvIdle /\ HistIdle /\ SessIdle /\ RegIdle /\ McpsIdle

SpecChat == InitChat /\ [][ChatNext]_vars

InitSess == SessStart /\ AnimIdle /\ UnityIdle /\ VHIdle /\ RouteIdle /\ InterpIdle /\ McpIdle /\ LfIdle /\ AvIdle /\ HistIdle /\ ChatIdle /\ RegIdle /\ McpsIdle

SpecSessions == InitSess /\ [][SessNext]_vars

InitReg == RegStart /\ AnimIdle /\ UnityIdle /\ VHIdle /\ RouteIdle /\ InterpIdle /\ McpIdle /\ LfIdle /\ AvIdle /\ HistIdle /\ ChatIdle /\ SessIdle /\ McpsIdle

SpecRegistry == InitReg /\ [][RegNext]_vars

InitMcps == McpsIdle /\ AnimIdle /\ UnityIdle /\ VHIdle /\ RouteIdle /\ InterpIdle /\ McpIdle /\ LfIdle /\ AvIdle /\ HistIdle /\ ChatIdle /\ SessIdle /\ RegIdle

SpecMcps == InitMcps /\ [][McpsNext]_vars

(***************************************************************************)
(* Properties                                                              *)
(***************************************************************************)
\* C1: every blendshape weight in the dict returned by process_facial_animation
\* (computed, overlay and default paths) lies between 0 and 1 inclusive.
WeightsInUnitRange ==
    animPath # "none" =>
        \A b \in DOMAIN animResult : animResult[b] >= 0 /\ animResult[b] <= Scale

\* a face was detected with an open eye taller than 0.1, a mouth taller than
\* 0.15 and an emotion overlay was applied
WeightsInUnitRangeWitness ==
    /\ animPath = "computed"
    /\ frame.emotion = "excited"
    /\ frame.landmarks.n = 478
    /\ _calculate_eye_height(frame.landmarks, "left") > Scale \div 10
    /\ _calculate_mouth_height(frame.landmarks) > (15 * Scale) \div 100
    /\ animResult["jawOpen"] = Scale
    /\ animResult["eyeBlink_L"] = 0

\* C2 (as claimed): the returned dict has exactly blendshape_count = 52 keys,
\* the names of ARKIT_BLENDSHAPES.
ResultHas52Keys ==
    animPath # "none" =>
        /\ DOMAIN animResult = Range(ARKIT_BLENDSHAPES)
        /\ Cardinality(DOMAIN animResult) = blendshape_count
        /\ Len(ARKIT_BLENDSHAPES) = blendshape_count
\* C3: a failed send returns False and leaves no connection; a call that starts
\* without a connection connects before it sends, returns True when connect and
\* send succeed and returns False without sending when the connect fails; no
\* send ever starts on a connection on which a send has failed.
UnityReconnects ==
    /\ unity_websocket \notin failedConns
    /\ \A c \in UnityCallers :
          /\ ucall[c].send = "failed" => ucall[c].ret = "False" /\ ucall[c].wsAtReturn = 0
          /\ (ucall[c].sentOn # 0 /\ ~ucall[c].hadConn) => ucall[c].connect = "ok"
          /\ (ucall[c].connect = "ok" /\ ucall[c].send = "ok") => ucall[c].ret = "True"
          /\ ucall[c].connect = "failed" => ucall[c].ret = "False" /\ ucall[c].sentOn = 0
          /\ ~ucall[c].stale

\* after a send failed, a later call found no connection, connected and sent
\* successfully on the new connection
UnityReconnectsWitness ==
    /\ failedConns # {}
    /\ \E c \in UnityCallers :
          /\ upc[c] = "done"
          /\ ~ucall[c].hadConn
          /\ ucall[c].connect = "ok"
          /\ ucall[c].send = "ok"
          /\ ucall[c].ret = "True"
          /\ ucall[c].sentOn \notin failedConns
          /\ \A f \in failedConns : f < ucall[c].sentOn

\* C4: once initialize has run with the OpenAI key absent or the placeholder,
\* every generate_response call returns the canned response for its input with
\* mode "demo" and the OpenAI client is never called.
DemoModeSticks ==
    /\ vh_demo_init => openai_calls = 0
    /\ \A c \in VHCallers :
          (vh_pc[c] # "idle" /\ vh_call[c].after_demo_init) =>
              /\ vh_pc[c] = "done"
              /\ vh_call[c].mode = "demo"
              /\ vh_call[c].response = _generate_demo_response(vh_call[c].user_input)
              /\ ~vh_call[c].called_client

\* the key is the placeholder, initialize and cleanup have run, and the last
\* generate_response call has returned in demo mode
DemoModeSticksWitness ==
    /\ api_key = PlaceholderKey
    /\ vh_demo_init
    /\ ~vh_is_healthy
    /\ vh_started = MaxVHCalls
    /\ \E c \in VHCallers :
          /\ vh_pc[c] = "done"
          /\ vh_call[c].after_demo_init
          /\ vh_call[c].mode = "demo"
          /\ vh_call[c].user_input = {"hi", "math"}

\* C5 (as claimed): an HTTPException raised on purpose inside a handler reaches
\* the client with its own status and detail: 503 from animation/update, 404
\* from avatar/presets/{id}, 400 from VirtualHuman chat/send and 400 from
\* pybackend audio/generate.
DeliberateStatusReachesClient ==
    (rt_pc = "responded" /\ Body(rt_req).kind = "raise"
        /\ Body(rt_req).exc.type = "HTTPException"
        /\ \/ rt_req.route = "animation_update"
           \/ rt_req.route = "avatar_preset"
           \/ rt_req.route = "vh_chat_send"
           \/ rt_req.route = "py_audio_generate" /\ rt_req.arg = "bad") =>
        /\ rt_resp.status = Body(rt_req).exc.status
        /\ rt_resp.detail = Body(rt_req).exc.text

\* C6: in the src/backend handlers an exception raised by a service call is
\* answered with HTTP 500 whose detail is the exception text (by an error
\* message with that text on the chat WebSocket); it never leaves the handler
\* unhandled and never gives a success response.
ServiceErrorIs500 ==
    (rt_pc = "responded" /\ rt_req.route \in BackendRoutes /\ Body(rt_req).kind = "raise"
        /\ Body(rt_req).exc.type # "HTTPException") =>
        /\ rt_resp.kind = "error"
        /\ rt_resp.detail = Body(rt_req).exc.text
        /\ rt_req.route \in HttpRoutes => rt_resp.channel = "http" /\ rt_resp.status = 500

\* POST /api/chat/send with use_voice got its LLM reply, then text-to-speech
\* raised 'Audio service not initialized', and the answer is a 500
ServiceErrorIs500Witness ==
    /\ rt_pc = "responded"
    /\ rt_req.route = "chat_send"
    /\ rt_req.svc = "ok"
    /\ rt_req.use_voice
    /\ rt_req.svc2 = "uninit"
    /\ rt_resp.status = 500
    /\ rt_resp.detail.text = "Audio service not initialized"

\* C7 (as claimed): execute_python never raises; code that runs to completion
\* gives success True, the printed text as output and no error; code that
\* raises gives success False, empty output and a non-empty error;
\* constitutional_guidance is set in both cases.
ExecutePythonNeverRaises ==
    (ip_call.via = "execute_python" /\ ip_pc \notin {"idle", "exec"}) =>
        /\ ip_pc = "returned"
        /\ ip_result.kind = "dict"
        /\ ip_result.constitutional_guidance # ""
        /\ IF ip_call.code.ending = "completes"
           THEN /\ ip_result.success
                /\ ip_result.output = Strip(ip_call.code.printed)
                /\ ip_result.error = NoError
           ELSE /\ ~ip_result.success
                /\ ip_result.output = << >>
                /\ ip_result.error # NoError

\* C8 (as claimed): execute_code(code, timeout) is stopped when the timeout
\* elapses, so no call is still inside exec(code) after timeout seconds, and a
\* call that ran out of time has returned success False.
ExecStopsAtTimeout ==
    /\ ip_pc = "exec" => ip_elapsed <= ip_call.timeout
    /\ (ip_pc = "returned" /\ ip_elapsed > ip_call.timeout) => ~ip_result.success

\* C9 (as claimed): each stdio MCP server writes exactly one response for
\* every non-empty line it reads, in the order read; invalid JSON is answered
\* with -32700 and an unknown method with -32601; the server keeps serving
\* until end of input (it neither leaves the read loop early nor hangs).
McpOneResponsePerLine ==
    /\ mcp_pc \notin {"exited", "hung"}
    /\ mcp_pc \in {"reading", "stopped"} =>
          /\ \A i \in 1..Len(mcp_in) :
                mcp_in[i].class # "blank" =>
                    Cardinality({j \in 1..Len(mcp_out) : mcp_out[j].for = i}) = 1
          /\ \A j, k \in 1..Len(mcp_out) : j < k => mcp_out[j].for < mcp_out[k].for
          /\ \A j \in 1..Len(mcp_out) :
                /\ mcp_in[mcp_out[j].for].class = "invalid" => mcp_out[j].code = ParseError
                /\ mcp_in[mcp_out[j].for].class = "unknown_method" =>
                       mcp_out[j].code = MethodNotFound

\* C10 (as claimed): every response a stdio MCP server writes is a JSON-RPC
\* 2.0 message and carries the id of the request it answers.
McpResponsesCarryId ==
    \A j \in 1..Len(mcp_out) :
        /\ mcp_out[j].jsonrpc = "2.0"
        /\ mcp_in[mcp_out[j].for].id # Absent => mcp_out[j].id = mcp_in[mcp_out[j].for].id

\* C11: no request method of DirectLangflowClient or LangflowAgent raises;
\* when the server is unreachable or answers with a status other than 200,
\* check_connection returns success False, status 'error', an 'error' text
\* and the host_url, and every other request method returns success False
\* and an 'error' text.
LangflowClientNeverRaises ==
    /\ lf_pc # "raised"
    /\ (lf_pc = "returned" /\ (lf_call.answer.conn # "ok" \/ lf_call.answer.status # 200)) =>
          /\ lf_result.kind = "dict"
          /\ ~lf_result.success
          /\ lf_result.error # Absent
          /\ lf_call.method = "check_connection" =>
                (lf_result.status = "error" /\ lf_result.host_url # Absent)

LangflowClientNeverRaisesWitness ==
    /\ lf_pc = "returned"
    /\ lf_call.method = "chat_with_flow"
    /\ lf_call.answer.conn = "timeout"
    /\ ~lf_result.success

\* C12: no sequence of create, update and delete requests changes the default
\* avatars; an update or delete of a default id is answered 400, of an id that
\* is neither default nor custom 404, and a create of an id already in
\* custom_avatars 400, each leaving the stored avatars as they were.
DefaultAvatarsNeverChange ==
    /\ default_avatars = DEFAULT_AVATARS
    /\ av_resp.op \in {"update", "delete"} =>
          /\ av_resp.avatar_id \in DOMAIN DEFAULT_AVATARS =>
                (av_resp.status = 400 /\ custom_avatars = av_resp.before)
          /\ (av_resp.avatar_id \notin DOMAIN DEFAULT_AVATARS
                /\ av_resp.avatar_id \notin DOMAIN av_resp.before) =>
                (av_resp.status = 404 /\ custom_avatars = av_resp.before)
    /\ (av_resp.op = "create" /\ av_resp.avatar_id \in DOMAIN av_resp.before) =>
          (av_resp.status = 400 /\ custom_avatars = av_resp.before)

DefaultAvatarsNeverChangeWitness ==
    /\ av_resp.op = "update"
    /\ av_resp.avatar_id = "teacher"
    /\ "teacher" \in DOMAIN custom_avatars
    /\ av_resp.status = 400

\* C13: after any sequence of generate_response and clear calls every stored
\* history (per session in src/backend, the single one in VirtualHuman) holds
\* at most 20 messages, and they are the most recent 20 appended since the
\* last clear, in the order they were appended.
HistoryKeepsLast20 ==
    /\ \A s \in DOMAIN bk_history :
          /\ Len(bk_history[s]) <= 20
          /\ bk_history[s] = LastN(hs_log[s], 20)
    /\ Len(vhh_history) <= 20
    /\ vhh_history = LastN(hs_log["VirtualHuman"], 20)

HistoryKeepsLast20Witness ==
    \E s \in DOMAIN bk_history :
        /\ Len(hs_log[s]) > 20
        /\ Len(bk_history[s]) = 20
        /\ bk_history[s][1].content = 2

\* C14: the message list built for an LLM call is one system message, then
\* at most the 10 most recent stored messages in stored order, then the
\* current user input; it never has more than 12 entries.
BuiltMessagesShape ==
    hs_built # NoBuilt =>
        LET m == hs_built.messages
        IN  /\ Len(m) <= 12
            /\ m[1].role = "system"
            /\ m[Len(m)] = Message("user", hs_built.user_input)
            /\ Len(m) - 2 <= 10
            /\ SubSeq(m, 2, Len(m) - 1) = LastN(hs_built.stored, Len(m) - 2)
            /\ Len(m) - 2 = IF Len(hs_built.stored) > 10 THEN 10 ELSE Len(hs_built.stored)
            /\ \A i \in 2..Len(m) - 1 : m[i].role # "system"

BuiltMessagesShapeWitness ==
    /\ hs_built.history = "VirtualHuman"
    /\ Len(hs_built.stored) = 20
    /\ Len(hs_built.messages) = 12

\* C15: under any interleaving of generate_response and clear calls every
\* session's history has even length and alternates user, assistant starting
\* with user, each user message is immediately followed by the reply of the
\* same call, and a call whose LLM request failed has appended nothing.
HistoryAlternates ==
    /\ \A s \in DOMAIN ch_history :
          LET h == ch_history[s]
          IN  /\ Len(h) % 2 = 0
              /\ \A i \in 1..Len(h) :
                    h[i].role = IF i % 2 = 1 THEN "user" ELSE "assistant"
              /\ \A i \in 1..Len(h) : i % 2 = 1 => h[i + 1].content = h[i].content
    /\ \A c \in ChatSlots :
          ch_req[c].llm = "fails" =>
              \A s \in DOMAIN ch_history : \A i \in 1..Len(ch_history[s]) :
                  ch_history[s][i].content # ch_req[c].message

HistoryAlternatesWitness ==
    /\ ch_pc[1] = "done" /\ ch_req[1].llm = "reply" /\ ch_req[1].session_id = "A"
    /\ ch_pc[2] = "done" /\ ch_req[2].llm = "reply" /\ ch_req[2].session_id = "A"
    /\ ch_req[2].message < ch_req[1].message
    /\ "A" \in DOMAIN ch_history
    /\ Len(ch_history["A"]) = 4
    /\ ch_history["A"][1].content = ch_req[1].message

\* C17 (as claimed): a /api/chat/send request answered with an error status
\* has left the session's history as it was: none of its messages is stored,
\* also when the failure came after the LLM had replied.
FailedSendLeavesHistory ==
    \A c \in ChatSlots :
        (ch_pc[c] = "done" /\ ch_req[c].status = 500) =>
            \A i \in 1..Len(ChatStored(ch_req[c].session_id)) :
                ChatStored(ch_req[c].session_id)[i].content # ch_req[c].message

\* C16 (as claimed): the messages given to the LLM for a request of session A
\* hold, between the system message and the current input, only messages
\* exchanged under session A, and they are the history that
\* GET /api/chat/history/A returned for that session.
SessionsIsolated ==
    vs_built # NoSessBuilt =>
        LET m == vs_built.messages
            given == [i \in 1..Len(m) - 2 |-> m[i + 1]]
        IN  /\ \A i \in 1..Len(given) :
                  IF given[i].role = "user"
                  THEN given[i].content.session = vs_built.session_id
                  ELSE given[i].content.of.session = vs_built.session_id
            /\ Len(given) = Len(LastN(Flatten(vs_built.endpoint), 10))

\* C18: register_flow succeeds only when the key derived from the name is
\* not yet registered and flow_id parses as a UUID; on failure it leaves the
\* registry unchanged in memory and on file; on success the flow is stored
\* under the key with is_active True, usage_count 0 and last_used None, and
\* every other flow is unchanged.
RegisterFlowContract ==
    rg_result.op = "register" =>
        IF rg_result.success
        THEN /\ rg_result.flow_key \notin DOMAIN rg_result.flows_before
             /\ rg_result.flow_id \in {UuidHyphenated, UuidBraced, UuidUrn}
             /\ rg_result.flow_key \in {<<"a", "_", "b">>, <<"c">>}
             /\ DOMAIN flows = DOMAIN rg_result.flows_before \cup {rg_result.flow_key}
             /\ flows[rg_result.flow_key].id = rg_result.flow_id
             /\ flows[rg_result.flow_key].name = rg_result.name
             /\ flows[rg_result.flow_key].is_active
             /\ flows[rg_result.flow_key].usage_count = 0
             /\ flows[rg_result.flow_key].last_used = "None"
             /\ \A k \in DOMAIN rg_result.flows_before : flows[k] = rg_result.flows_before[k]
        ELSE /\ flows = rg_result.flows_before
             /\ registry_file = rg_result.file_before

RegisterFlowContractWitness ==
    /\ rg_result.op = "register"
    /\ ~rg_result.success
    /\ rg_result.name = <<"a", "-", "b">>
    /\ rg_result.flow_id = UuidBraced
    /\ <<"a", "_", "b">> \in DOMAIN flows
    /\ flows[<<"a", "_", "b">>].name = <<"A", " ", "b">>
    /\ flows[<<"a", "_", "b">>].usage_count = 1

\* C19 (as claimed): when the only writers are POST /api/mcps requests for
\* different ids, every id whose add was answered 200 is in the list that a
\* later GET /api/mcps returns.
NoAcknowledgedAddLost ==
    LET addsOfDifferentIds ==
            /\ \A i \in 1..Len(ms_log) : ms_log[i].op \in {"add", "list"}
            /\ \A i, j \in 1..Len(ms_log) :
                  (i # j /\ ms_log[i].op = "add" /\ ms_log[j].op = "add")
                      => ms_log[i].id # ms_log[j].id
    IN  (addsOfDifferentIds /\ ms_get.status = 200) =>
            \A id \in ms_get.acked : HasId(ms_get.body, id)
====
